---- MODULE Spec2Model ----
(***************************************************************************)
(* Schema introspection and migration helpers of odoo/tools/sql.py,        *)
(* modelled over an abstract catalog of one PostgreSQL database and one    *)
(* cursor (one transaction).                                               *)
(*                                                                         *)
(* A Python function f(cr, args) is an operator f(cr, args) from a cursor  *)
(* record to a cursor record.  The cursor record carries the catalog       *)
(* (cr.db), the state of the transaction (cr.txn), the exception that is   *)
(* propagating (cr.exc, "none" when none), the value returned (cr.ret),    *)
(* the warnings logged (cr.warn), and the statements sent so far with      *)
(* their outcome (cr.trace).  A statement is skipped while an exception    *)
(* propagates, which is how the sequential code after a raise is skipped.  *)
(*                                                                         *)
(* Python values are written as strings: "None", "True", "0", "1".         *)
(***************************************************************************)
EXTENDS Integers, Sequences, FiniteSets, TLC

VARIABLES
    db,      \* the catalog and the data of the database
    txn,     \* "ok" | "aborted": the caller's transaction
    last     \* the last call: its name, arguments, the catalog before, the outcome

vars == <<db, txn, last>>

(***************************************************************************)
(* Bounds of the model                                                     *)
(***************************************************************************)
\* rows a table holds at most
MaxRows == 1
\* foreign keys the reconciler scenario starts with at most, per source column
MaxStaleFk == 2

(***************************************************************************)
(* Names                                                                   *)
(***************************************************************************)
Tbls == {"a", "b"}
ViewNames == {"v", "w"}
Rels == Tbls \cup ViewNames
Cols == {"id", "a_id", "x", "__temp_type_cast"}
NoCol == "-"

\* sql.py:9-14
TABLE_KIND == [s \in {"BASE TABLE", "VIEW", "FOREIGN TABLE", "LOCAL TEMPORARY"} |->
    CASE s = "BASE TABLE" -> "r"
      [] s = "VIEW" -> "v"
      [] s = "FOREIGN TABLE" -> "f"
      [] s = "LOCAL TEMPORARY" -> "t"]

\* sql.py:16-22
CONFDELTYPES == [s \in {"RESTRICT", "NO ACTION", "CASCADE", "SET NULL", "SET DEFAULT"} |->
    CASE s = "RESTRICT" -> "r"
      [] s = "NO ACTION" -> "a"
      [] s = "CASCADE" -> "c"
      [] s = "SET NULL" -> "n"
      [] s = "SET DEFAULT" -> "d"]

\* str.upper() on the delete actions a caller passes
OnDeleteArgs == {"RESTRICT", "NO ACTION", "CASCADE", "SET NULL", "SET DEFAULT",
                 "cascade", "Set Null", "bogus"}

upper(s) ==
    CASE s = "cascade" -> "CASCADE"
      [] s = "Set Null" -> "SET NULL"
      [] s = "bogus" -> "BOGUS"
      [] OTHER -> s

Range(f) == {f[i] : i \in DOMAIN f}

\* The element of a set of one element.  In The({F(x) : x \in {e}}), e is
\* evaluated once, before F is applied to its value.
The(S) == CHOOSE y \in S : TRUE

(***************************************************************************)
(* The catalog.  db is a record:                                           *)
(*   rel      relation name -> "none" | "r" table | "v" view |             *)
(*            "m" materialized view | "f" foreign table | "t" temporary    *)
(*   relcomment  relation name -> the comment on it ("" when none)         *)
(*   view     view name -> its defining query ("none" when no such view)   *)
(*   col      <<table, column>> -> column record, type "none" when absent  *)
(*   nrows    table -> number of rows (each column holds that many values) *)
(*   seq      table -> type of the sequence <table>_id_seq, or "none"      *)
(*   con      the constraints, a set of records                            *)
(*   idx      the indexes, a set of records                                *)
(*   version  cr._cnx.server_version                                       *)
(***************************************************************************)
NoColumn == [type |-> "none", len |-> 0, notnull |-> FALSE, comment |-> "", vals |-> <<>>]

HasCol(d, t, c) == d.col[<<t, c>>].type # "none"

\* The requested SQL type as information_schema.columns reports it (udt_name)
UdtName(sqltype) ==
    CASE sqltype \in {"VARCHAR", "VARCHAR(10)", "varchar"} -> "varchar"
      [] sqltype \in {"int4", "SERIAL"} -> "int4"
      [] sqltype \in {"int8", "BIGSERIAL"} -> "int8"
      [] OTHER -> sqltype

\* ... and its character_maximum_length (0 stands for NULL)
MaxLength(sqltype) == IF sqltype = "VARCHAR(10)" THEN 10 ELSE 0

Ok(d) == [err |-> "none", db |-> d]
Err(kind, d) == [err |-> kind, db |-> d]

IsTable(d, t) == t \in Tbls /\ d.rel[t] = "r"

(***************************************************************************)
(* Constraints.  kind is "p" (primary key), "u" (unique), "c" (check) or   *)
(* "f" (foreign key); def is the definition as the engine prints it        *)
(* (pg_get_constraintdef) and comment the comment on it, "NULL" when none. *)
(***************************************************************************)
Con(t, n, kind, c, rt, rc, dt, def) ==
    [tbl |-> t, name |-> n, kind |-> kind, col |-> c, reftbl |-> rt, refcol |-> rc,
     deltype |-> dt, def |-> def, comment |-> "NULL"]

ConsOf(d, t, n) == {k \in d.con : k.tbl = t /\ k.name = n}

\* The constraint definitions a caller passes, and what each one declares
ConDefs == {"unique(x)", "check(x > 0)"}
ConKind(def) == IF def = "unique(x)" THEN "u" ELSE "c"
\* pg_get_constraintdef: the engine's own rendering of a definition
ConstraintDef(def) ==
    CASE def = "unique(x)" -> "UNIQUE (x)"
      [] def = "check(x > 0)" -> "CHECK ((x > 0))"
      [] OTHER -> def

\* A value of column x that the constraint rejects: two equal values for
\* unique(x), a value that is not positive for check(x > 0)
Violates(def, vals) ==
    IF def = "unique(x)"
    THEN \E i, j \in DOMAIN vals : i # j /\ vals[i] = vals[j] /\ vals[i] # "NULL"
    ELSE \E i \in DOMAIN vals : vals[i] = "i:0"

\* ALTER TABLE t ADD CONSTRAINT n def
ExecAddConstraint(d, t, n, def) ==
    IF ~IsTable(d, t) \/ ~HasCol(d, t, "x") THEN Err("ProgrammingError", d)
    ELSE IF ConsOf(d, t, n) # {} THEN Err("ProgrammingError", d)
    ELSE IF Violates(def, d.col[<<t, "x">>].vals) THEN Err("IntegrityError", d)
    ELSE Ok([d EXCEPT !.con = @ \cup
                {Con(t, n, ConKind(def), "x", "-", NoCol, "-", ConstraintDef(def))}])

\* COMMENT ON CONSTRAINT n ON t IS text
ExecCommentConstraint(d, n, t, text) ==
    IF ConsOf(d, t, n) = {} THEN Err("ProgrammingError", d)
    ELSE Ok([d EXCEPT !.con = {IF k.tbl = t /\ k.name = n
                                 THEN [k EXCEPT !.comment = text] ELSE k : k \in @}])

\* Foreign keys that rest on a unique or primary key constraint
DependentFks(d, k) ==
    IF k.kind \in {"p", "u"}
    THEN {f \in d.con : f.kind = "f" /\ f.reftbl = k.tbl /\ f.refcol = k.col}
    ELSE {}

\* ALTER TABLE t DROP CONSTRAINT n
ExecDropConstraint(d, t, n) ==
    IF ConsOf(d, t, n) = {} THEN Err("ProgrammingError", d)
    ELSE IF \E k \in ConsOf(d, t, n) : DependentFks(d, k) # {}
         THEN Err("InternalError", d)
    ELSE Ok([d EXCEPT !.con = @ \ ConsOf(d, t, n)])

\* The name the engine gives a foreign key on t(c): <t>_<c>_fkey, then
\* <t>_<c>_fkey1, <t>_<c>_fkey2, ... for the first one that is free
FkName(d, t, c) ==
    LET base == t \o "_" \o c \o "_fkey"
        name(i) == IF i = 0 THEN base ELSE base \o ToString(i)
        i0 == CHOOSE i \in 0..Cardinality(d.con) :
                  /\ ConsOf(d, t, name(i)) = {}
                  /\ \A j \in 0..(i - 1) : ConsOf(d, t, name(j)) # {}
    IN name(i0)

IntTypes == {"int4", "int8"}
Comparable(ty1, ty2) == (ty1 = ty2) \/ (ty1 \in IntTypes /\ ty2 \in IntTypes)

\* ALTER TABLE t1 ADD FOREIGN KEY (c1) REFERENCES t2(c2) ON DELETE ondelete
ExecAddForeignKey(d, t1, c1, t2, c2, ondelete) ==
    IF upper(ondelete) \notin DOMAIN CONFDELTYPES THEN Err("ProgrammingError", d)
    ELSE IF ~IsTable(d, t1) \/ ~IsTable(d, t2) \/ ~HasCol(d, t1, c1) \/ ~HasCol(d, t2, c2)
         THEN Err("ProgrammingError", d)
    ELSE IF ~\E k \in d.con : k.tbl = t2 /\ k.col = c2 /\ k.kind \in {"p", "u"}
         THEN Err("ProgrammingError", d)
    ELSE IF ~Comparable(d.col[<<t1, c1>>].type, d.col[<<t2, c2>>].type)
         THEN Err("ProgrammingError", d)
    ELSE IF \E v \in Range(d.col[<<t1, c1>>].vals) :
                v # "NULL" /\ v \notin Range(d.col[<<t2, c2>>].vals)
         THEN Err("IntegrityError", d)
    ELSE Ok([d EXCEPT !.con = @ \cup
                {Con(t1, FkName(d, t1, c1), "f", c1, t2, c2,
                     CONFDELTYPES[upper(ondelete)], "FOREIGN KEY")}])

(***************************************************************************)
(* Values.  A column holds one value per row of its table: "NULL", an      *)
(* integer ("i:0", "i:1") or a text ("s:1", "s:x").                        *)
(***************************************************************************)
IntVals == {"i:0", "i:1"}
TextVals == {"s:1", "s:x"}

ValsOfType(ty) == IF ty \in IntTypes THEN IntVals ELSE TextVals

\* value::type, "error" when the value has no representation in the type
Cast(v, ty) ==
    CASE v = "NULL" -> "NULL"
      [] ty \in IntTypes /\ v \in IntVals -> v
      [] ty \in IntTypes /\ v = "s:1" -> "i:1"
      [] ty \in IntTypes /\ v = "s:x" -> "error"
      [] ty = "varchar" /\ v \in TextVals -> v
      [] ty = "varchar" /\ v = "i:1" -> "s:1"
      [] ty = "varchar" /\ v = "i:0" -> "s:0"
      [] OTHER -> "error"

CastAll(vals, ty) == [i \in DOMAIN vals |-> Cast(vals[i], ty)]

\* A conversion the engine applies without an explicit cast (assignment cast)
AssignmentCast(from, to) ==
    \/ from = to
    \/ from \in IntTypes /\ to \in IntTypes
    \/ from \in IntTypes /\ to = "varchar"

Nulls(n) == [i \in 1..n |-> "NULL"]

(***************************************************************************)
(* Views.  A view's defining query is the set of <<relation, column>> it   *)
(* selects; the columns of the view are the columns selected.              *)
(***************************************************************************)
IsView(d, v) == v \in ViewNames /\ d.rel[v] = "v"

ViewsOn(d, r, c) == {v \in ViewNames : IsView(d, v) /\ <<r, c>> \in d.view[v]}

ViewsOnRel(d, r) == {v \in ViewNames : IsView(d, v) /\ \E p \in d.view[v] : p[1] = r}

RelHasCol(d, r, c) ==
    IF r \in Tbls THEN d.rel[r] = "r" /\ HasCol(d, r, c)
    ELSE IsView(d, r) /\ \E p \in d.view[r] : p[2] = c

\* The views that go when the views of vs go with CASCADE
RECURSIVE CascadeViews(_, _)
CascadeViews(d, vs) ==
    LET more == vs \cup UNION {ViewsOnRel(d, v) : v \in vs}
    IN IF more = vs THEN vs ELSE CascadeViews(d, more)

RemoveViews(d, vs) ==
    [d EXCEPT !.rel = [r \in Rels |-> IF r \in vs THEN "none" ELSE @[r]],
              !.view = [v \in ViewNames |-> IF v \in vs THEN {} ELSE @[v]]]

\* DROP VIEW "v"
ExecDropView(d, v) ==
    IF ~IsView(d, v) THEN Err("ProgrammingError", d)
    ELSE IF ViewsOnRel(d, v) # {} THEN Err("InternalError", d)
    ELSE Ok(RemoveViews(d, {v}))

\* DROP view IF EXISTS v CASCADE
ExecDropViewIfExistsCascade(d, v) ==
    IF d.rel[v] = "none" THEN Ok(d)
    ELSE IF ~IsView(d, v) THEN Err("ProgrammingError", d)
    ELSE Ok(RemoveViews(d, CascadeViews(d, {v})))

\* CREATE VIEW "v" AS def
ExecCreateView(d, v, def) ==
    IF d.rel[v] # "none" THEN Err("ProgrammingError", d)
    ELSE IF \E p \in def : ~RelHasCol(d, p[1], p[2]) THEN Err("ProgrammingError", d)
    ELSE Ok([d EXCEPT !.rel[v] = "v", !.view[v] = def])

(***************************************************************************)
(* Tables and columns                                                      *)
(***************************************************************************)
\* cr._cnx.server_version from which a sequence has a type of its own
SequenceTypeVersion == 100000

\* CREATE TABLE "t" (id SERIAL|BIGSERIAL NOT NULL, PRIMARY KEY(id))
ExecCreateTable(d, t, idtype) ==
    IF d.rel[t] # "none" THEN Err("ProgrammingError", d)
    ELSE Ok([d EXCEPT
        !.rel[t] = "r",
        !.nrows[t] = 0,
        !.seq[t] = IF d.version >= SequenceTypeVersion THEN UdtName(idtype) ELSE "int8",
        !.col[<<t, "id">>] = [NoColumn EXCEPT !.type = UdtName(idtype), !.notnull = TRUE],
        !.con = @ \cup {Con(t, t \o "_pkey", "p", "id", "-", NoCol, "-", "PRIMARY KEY (id)")}])

\* COMMENT ON TABLE "t" IS text
ExecCommentTable(d, t, text) ==
    IF d.rel[t] = "none" THEN Err("ProgrammingError", d)
    ELSE Ok([d EXCEPT !.relcomment[t] = text])

\* ALTER TABLE "t" ADD COLUMN "c" sqltype
ExecAddColumn(d, t, c, sqltype) ==
    IF ~IsTable(d, t) THEN Err("ProgrammingError", d)
    ELSE IF HasCol(d, t, c) THEN Err("ProgrammingError", d)
    ELSE Ok([d EXCEPT !.col[<<t, c>>] =
                [NoColumn EXCEPT !.type = UdtName(sqltype), !.len = MaxLength(sqltype),
                                 !.vals = Nulls(d.nrows[t])]])

\* COMMENT ON COLUMN "t"."c" IS text
ExecCommentColumn(d, t, c, text) ==
    IF ~(t \in Tbls /\ HasCol(d, t, c)) THEN Err("ProgrammingError", d)
    ELSE Ok([d EXCEPT !.col[<<t, c>>].comment = text])

RenameIn(def, t, c1, c2) == {IF p = <<t, c1>> THEN <<t, c2>> ELSE p : p \in def}

\* ALTER TABLE "t" RENAME COLUMN "c1" TO "c2": constraints, indexes and views
\* follow the column
ExecRenameColumn(d, t, c1, c2) ==
    IF ~IsTable(d, t) \/ ~HasCol(d, t, c1) THEN Err("ProgrammingError", d)
    ELSE IF HasCol(d, t, c2) THEN Err("ProgrammingError", d)
    ELSE Ok([d EXCEPT
        !.col = [@ EXCEPT ![<<t, c2>>] = d.col[<<t, c1>>], ![<<t, c1>>] = NoColumn],
        !.con = {[k EXCEPT !.col = IF k.tbl = t /\ k.col = c1 THEN c2 ELSE @,
                           !.refcol = IF k.reftbl = t /\ k.refcol = c1 THEN c2 ELSE @]
                 : k \in @},
        !.idx = {[i EXCEPT !.exprs = IF i.tbl = t
                                     THEN [j \in DOMAIN @ |-> IF @[j] = c1 THEN c2 ELSE @[j]]
                                     ELSE @] : i \in @},
        !.view = [v \in ViewNames |-> RenameIn(@[v], t, c1, c2)]])

\* ALTER TABLE "t" DROP COLUMN c CASCADE: what hangs on the column goes too
ExecDropColumnCascade(d, t, c) ==
    IF ~IsTable(d, t) \/ ~HasCol(d, t, c) THEN Err("ProgrammingError", d)
    ELSE LET d1 == RemoveViews(d, CascadeViews(d, ViewsOn(d, t, c)))
         IN Ok([d1 EXCEPT
                !.col[<<t, c>>] = NoColumn,
                !.con = {k \in @ : ~(k.tbl = t /\ k.col = c)
                                   /\ ~(k.reftbl = t /\ k.refcol = c)},
                !.idx = {i \in @ : ~(i.tbl = t /\ c \in Range(i.exprs))}])

\* The columns a foreign key ties to t(c), on either side
FkPeers(d, t, c) ==
    {<<k.reftbl, k.refcol>> : k \in {k \in d.con : k.kind = "f" /\ k.tbl = t /\ k.col = c}}
    \cup {<<k.tbl, k.col>> : k \in {k \in d.con : k.kind = "f" /\ k.reftbl = t /\ k.refcol = c}}

\* ALTER TABLE "t" ALTER COLUMN "c" TYPE sqltype
ExecAlterType(d, t, c, sqltype) ==
    LET ty == UdtName(sqltype)
        old == d.col[<<t, c>>]
    IN  IF ~IsTable(d, t) \/ ~HasCol(d, t, c) THEN Err("ProgrammingError", d)
        ELSE IF ~AssignmentCast(old.type, ty) THEN Err("ProgrammingError", d)
        ELSE IF ViewsOn(d, t, c) # {} THEN Err("NotSupportedError", d)
        ELSE IF \E p \in FkPeers(d, t, c) : ~Comparable(ty, d.col[p].type)
             THEN Err("ProgrammingError", d)
        ELSE IF "error" \in Range(CastAll(old.vals, ty)) THEN Err("DataError", d)
        ELSE Ok([d EXCEPT !.col[<<t, c>>] =
                    [old EXCEPT !.type = ty, !.len = MaxLength(sqltype),
                                !.vals = CastAll(old.vals, ty)]])

\* The helper column of convert_column
TempTypeCast == "__temp_type_cast"

\* UPDATE "t" SET "c" = __temp_type_cast::sqltype
ExecUpdateCast(d, t, c, sqltype) ==
    LET new == CastAll(d.col[<<t, TempTypeCast>>].vals, UdtName(sqltype))
    IN  IF "error" \in Range(new) THEN Err("DataError", d)
        ELSE Ok([d EXCEPT !.col[<<t, c>>].vals = new])

\* The script of convert_column without its UPDATE: rename, add, drop
ExecCastScript_without_update(d, t, c, sqltype) ==
    LET Drop(r2) == IF r2.err # "none" THEN Err(r2.err, d)
                    ELSE LET Done(r4) == IF r4.err # "none" THEN Err(r4.err, d) ELSE r4
                         IN The({Done(x) : x \in {ExecDropColumnCascade(r2.db, t, TempTypeCast)}})
        Add(r1) == IF r1.err # "none" THEN Err(r1.err, d)
                   ELSE The({Drop(x) : x \in {ExecAddColumn(r1.db, t, c, sqltype)}})
    IN The({Add(x) : x \in {ExecRenameColumn(d, t, c, TempTypeCast)}})

\* The four statements convert_column sends in one execute: rename, add,
\* update, drop.  The first error ends the script.
ExecCastScript(d, t, c, sqltype) ==
    LET Drop(r3) == IF r3.err # "none" THEN Err(r3.err, d)
                    ELSE LET Done(r4) == IF r4.err # "none" THEN Err(r4.err, d) ELSE r4
                         IN The({Done(x) : x \in {ExecDropColumnCascade(r3.db, t, TempTypeCast)}})
        Update(r2) == IF r2.err # "none" THEN Err(r2.err, d)
                      ELSE The({Drop(x) : x \in {ExecUpdateCast(r2.db, t, c, sqltype)}})
        Add(r1) == IF r1.err # "none" THEN Err(r1.err, d)
                   ELSE The({Update(x) : x \in {ExecAddColumn(r1.db, t, c, sqltype)}})
    IN The({Add(x) : x \in {ExecRenameColumn(d, t, c, TempTypeCast)}})

\* ALTER TABLE "t" ALTER COLUMN "c" SET NOT NULL
ExecSetNotNull(d, t, c) ==
    IF ~IsTable(d, t) \/ ~HasCol(d, t, c) THEN Err("ProgrammingError", d)
    ELSE IF "NULL" \in Range(d.col[<<t, c>>].vals) THEN Err("IntegrityError", d)
    ELSE Ok([d EXCEPT !.col[<<t, c>>].notnull = TRUE])

\* ALTER TABLE "t" ALTER COLUMN "c" DROP NOT NULL
ExecDropNotNull(d, t, c) ==
    IF ~IsTable(d, t) \/ ~HasCol(d, t, c) THEN Err("ProgrammingError", d)
    ELSE IF \E k \in d.con : k.tbl = t /\ k.col = c /\ k.kind = "p"
         THEN Err("ProgrammingError", d)
    ELSE Ok([d EXCEPT !.col[<<t, c>>].notnull = FALSE])

\* ALTER SEQUENCE IF EXISTS t_c_seq AS BIGINT
ExecAlterSequence(d, t, c) ==
    IF d.version < SequenceTypeVersion THEN Err("ProgrammingError", d)
    ELSE IF c # "id" \/ t \notin Tbls \/ d.seq[t] = "none" THEN Ok(d)
    ELSE Ok([d EXCEPT !.seq[t] = "int8"])

(***************************************************************************)
(* Indexes.  An index name is taken engine-wide.                           *)
(***************************************************************************)
IndexesNamed(d, n) == {i \in d.idx : i.name = n}

\* CREATE [UNIQUE] INDEX "n" ON "t" (exprs)
ExecCreateIndex(d, n, t, exprs, unique) ==
    IF IndexesNamed(d, n) # {} THEN Err("ProgrammingError", d)
    ELSE IF ~IsTable(d, t) \/ \E c \in Range(exprs) : ~HasCol(d, t, c)
         THEN Err("ProgrammingError", d)
    ELSE IF unique /\ Len(exprs) = 1
            /\ \E i, j \in DOMAIN d.col[<<t, exprs[1]>>].vals :
                  /\ i # j
                  /\ d.col[<<t, exprs[1]>>].vals[i] = d.col[<<t, exprs[1]>>].vals[j]
                  /\ d.col[<<t, exprs[1]>>].vals[i] # "NULL"
         THEN Err("IntegrityError", d)
    ELSE Ok([d EXCEPT !.idx = @ \cup {[name |-> n, tbl |-> t, exprs |-> exprs,
                                       unique |-> unique]}])

\* DROP INDEX IF EXISTS "n"
ExecDropIndex(d, n) == Ok([d EXCEPT !.idx = @ \ IndexesNamed(d, n)])

(***************************************************************************)
(* The cursor                                                              *)
(***************************************************************************)
\* What the engine does with one statement
Engine(d, s) ==
    CASE s[1] = "CREATE TABLE" -> ExecCreateTable(d, s[2], s[3])
      [] s[1] = "COMMENT ON TABLE" -> ExecCommentTable(d, s[2], s[3])
      [] s[1] = "ADD COLUMN" -> ExecAddColumn(d, s[2], s[3], s[4])
      [] s[1] = "COMMENT ON COLUMN" -> ExecCommentColumn(d, s[2], s[3], s[4])
      [] s[1] = "RENAME COLUMN" -> ExecRenameColumn(d, s[2], s[3], s[4])
      [] s[1] = "ALTER COLUMN TYPE" -> ExecAlterType(d, s[2], s[3], s[4])
      [] s[1] = "CAST SCRIPT" -> ExecCastScript(d, s[2], s[3], s[4])
      [] s[1] = "SET NOT NULL" -> ExecSetNotNull(d, s[2], s[3])
      [] s[1] = "DROP NOT NULL" -> ExecDropNotNull(d, s[2], s[3])
      [] s[1] = "ADD CONSTRAINT" -> ExecAddConstraint(d, s[2], s[3], s[4])
      [] s[1] = "COMMENT ON CONSTRAINT" -> ExecCommentConstraint(d, s[2], s[3], s[4])
      [] s[1] = "DROP CONSTRAINT" -> ExecDropConstraint(d, s[2], s[3])
      [] s[1] = "ADD FOREIGN KEY" -> ExecAddForeignKey(d, s[2], s[3], s[4], s[5], s[6])
      [] s[1] = "CREATE INDEX" -> ExecCreateIndex(d, s[2], s[3], s[4], FALSE)
      [] s[1] = "CREATE UNIQUE INDEX" -> ExecCreateIndex(d, s[2], s[3], s[4], TRUE)
      [] s[1] = "DROP INDEX IF EXISTS" -> ExecDropIndex(d, s[2])
      [] s[1] = "DROP VIEW" -> ExecDropView(d, s[2])
      [] s[1] = "DROP VIEW IF EXISTS CASCADE" -> ExecDropViewIfExistsCascade(d, s[2])
      [] s[1] = "CREATE VIEW" -> ExecCreateView(d, s[2], s[3])
      [] s[1] = "ALTER SEQUENCE AS BIGINT" -> ExecAlterSequence(d, s[2], s[3])

\* No statement of the call is rejected for a reason outside the catalog
NoFault == [at |-> 0, kind |-> "none"]

\* A cursor on catalog d in a transaction that is in order.  fault names the
\* statement of the call (by its position among the statements sent) that the
\* engine rejects for a reason the catalog does not show: a lock that cannot
\* be taken, a missing privilege, a trigger or rule on the column.
Cursor(d, fault) ==
    [db |-> d, txn |-> "ok", exc |-> "none", ret |-> "None", warn |-> <<>>,
     trace |-> <<>>, fault |-> fault, sp |-> <<>>, nsp |-> 0]

\* cr.execute(statement): a failed statement changes nothing, raises, and
\* leaves the transaction aborted until it is rolled back (to a savepoint)
execute(cr0, s) ==
    LET Result(cr, r) ==
            [cr EXCEPT !.db = r.db,
                       !.exc = r.err,
                       !.txn = IF r.err = "none" THEN @ ELSE "aborted",
                       !.trace = Append(@, [stmt |-> s, err |-> r.err])]
        Run(cr) ==
            IF cr.exc # "none" THEN cr
            ELSE IF cr.txn = "aborted" THEN Result(cr, Err("InternalError", cr.db))
            ELSE IF cr.fault.at = Len(cr.trace) + 1 THEN Result(cr, Err(cr.fault.kind, cr.db))
            ELSE LET Engined(r) == Result(cr, r) IN The({Engined(x) : x \in {Engine(cr.db, s)}})
    IN The({Run(x) : x \in {cr0}})

\* Entering "with cr.savepoint():" sends SAVEPOINT
savepoint_enter(cr0) ==
    LET Enter(cr) ==
            IF cr.exc # "none" THEN cr
            ELSE IF cr.txn = "aborted" THEN [cr EXCEPT !.exc = "InternalError"]
            ELSE [cr EXCEPT !.sp = Append(@, cr.db), !.nsp = @ + 1]
    IN The({Enter(x) : x \in {cr0}})

\* Leaving it sends RELEASE SAVEPOINT, or ROLLBACK TO SAVEPOINT when the body
\* raised, and the exception goes on.  cr0 is the cursor before the block.
savepoint_exit(cr0, cr1) ==
    LET Exit(cr) ==
            IF Len(cr.sp) = Len(cr0.sp) THEN cr
            ELSE IF cr.exc = "none" THEN [cr EXCEPT !.sp = SubSeq(@, 1, Len(@) - 1)]
            ELSE [cr EXCEPT !.db = cr.sp[Len(cr.sp)], !.txn = "ok",
                            !.sp = SubSeq(@, 1, Len(@) - 1)]
    IN The({Exit(x) : x \in {cr1}})

\* return value
return(cr0, v) ==
    LET Return(cr) == IF cr.exc # "none" THEN cr ELSE [cr EXCEPT !.ret = v]
    IN The({Return(x) : x \in {cr0}})

\* "except Exception:" followed by _schema.warning(msg)
except_warning(cr0, msg) ==
    LET Handle(cr) == IF cr.exc = "none" THEN cr
                      ELSE [cr EXCEPT !.exc = "none", !.warn = Append(@, msg)]
    IN The({Handle(x) : x \in {cr0}})

(***************************************************************************)
(* Tables and columns (sql.py:24-137)                                      *)
(***************************************************************************)
\* existing_tables with the relkind list of views only
existing_tables_views_only(d, tablenames) == {n \in tablenames : d.rel[n] \in {"v", "m"}}

\* relkind IN ('r', 'v', 'm') in schema public; a temporary table is in a
\* schema of its own
existing_tables(d, tablenames) == {n \in tablenames : d.rel[n] \in {"r", "v", "m"}}

table_exists(d, tablename) == Cardinality(existing_tables(d, {tablename})) = 1

\* information_schema.tables.table_type of the relation named, "no row" when
\* the view has no row for it (it lists no materialized view)
TableType(d, tablename) ==
    CASE d.rel[tablename] = "r" -> "BASE TABLE"
      [] d.rel[tablename] = "v" -> "VIEW"
      [] d.rel[tablename] = "f" -> "FOREIGN TABLE"
      [] d.rel[tablename] = "t" -> "LOCAL TEMPORARY"
      [] OTHER -> "no row"

\* _TABLE_KIND[cr.fetchone()[0]] if cr.rowcount else None
table_kind(d, tablename) ==
    LET ty == TableType(d, tablename)
    IN IF ty = "no row" THEN "None"
       ELSE IF ty \in DOMAIN TABLE_KIND THEN TABLE_KIND[ty]
       ELSE "KeyError"

\* create_model_table that leaves a table that exists alone and goes on to
\* its comment
create_model_table_if_not_exists(cr, tablename, comment, bigint) ==
    LET c1 == IF table_exists(cr.db, tablename) THEN cr
              ELSE execute(cr, <<"CREATE TABLE", tablename,
                                 IF bigint THEN "BIGSERIAL" ELSE "SERIAL">>)
    IN IF comment # "" THEN execute(c1, <<"COMMENT ON TABLE", tablename, comment>>) ELSE c1

create_model_table(cr, tablename, comment, bigint) ==
    LET c1 == execute(cr, <<"CREATE TABLE", tablename,
                            IF bigint THEN "BIGSERIAL" ELSE "SERIAL">>)
    IN IF comment # "" THEN execute(c1, <<"COMMENT ON TABLE", tablename, comment>>) ELSE c1

\* column_name -> (udt_name, character_maximum_length, is_nullable)
table_columns(d, tablename) ==
    [c \in {c \in Cols : tablename \in Tbls /\ HasCol(d, tablename, c)} |->
        [udt_name |-> d.col[<<tablename, c>>].type,
         character_maximum_length |-> d.col[<<tablename, c>>].len,
         is_nullable |-> IF d.col[<<tablename, c>>].notnull THEN "NO" ELSE "YES"]]

column_type(d, table, column) ==
    IF table \in Tbls /\ HasCol(d, table, column) THEN d.col[<<table, column>>].type
    ELSE "None"

\* column_exists with the query on the table alone
column_exists_any_column(d, tablename, columnname) ==
    IF tablename \in Tbls /\ HasCol(d, tablename, "id") THEN 1 ELSE 0

\* cr.rowcount of the query on information_schema.columns
column_exists(d, tablename, columnname) ==
    IF tablename \in Tbls /\ HasCol(d, tablename, columnname) THEN 1 ELSE 0

\* create_column that returns at once when the column is there
create_column_if_not_exists(cr, tablename, columnname, columntype, comment) ==
    LET c1 == execute(cr, <<"ADD COLUMN", tablename, columnname, columntype>>)
    IN IF column_exists(cr.db, tablename, columnname) = 1 THEN cr
       ELSE IF comment # ""
       THEN execute(c1, <<"COMMENT ON COLUMN", tablename, columnname, comment>>)
       ELSE c1

create_column(cr, tablename, columnname, columntype, comment) ==
    LET c1 == execute(cr, <<"ADD COLUMN", tablename, columnname, columntype>>)
    IN IF comment # ""
       THEN execute(c1, <<"COMMENT ON COLUMN", tablename, columnname, comment>>)
       ELSE c1

rename_column(cr, tablename, columnname1, columnname2) ==
    execute(cr, <<"RENAME COLUMN", tablename, columnname1, columnname2>>)

\* set_not_null with the try/except but without the savepoint
set_not_null_no_savepoint(cr0, tablename, columnname) ==
    except_warning(execute(cr0, <<"SET NOT NULL", tablename, columnname>>),
                   "unable to set NOT NULL")

set_not_null(cr0, tablename, columnname) ==
    LET Body(cr) ==
            LET c1 == savepoint_enter(cr)
                c2 == execute(c1, <<"SET NOT NULL", tablename, columnname>>)
                c3 == savepoint_exit(cr, c2)
            IN except_warning(c3, "unable to set NOT NULL")
    IN The({Body(x) : x \in {cr0}})

drop_not_null(cr, tablename, columnname) ==
    execute(cr, <<"DROP NOT NULL", tablename, columnname>>)

(***************************************************************************)
(* Widening to int8 and conversion (sql.py:96-120, 287-366)                *)
(*                                                                         *)
(* The queries have no ORDER BY: the rows come in an order of the engine's *)
(* choosing.  ord.cols and ord.views list all columns and all views in the *)
(* order the engine would return them in.                                  *)
(***************************************************************************)
\* calls of convert_column_int4_to_int8 within one another before Python
\* gives up with a RecursionError
MaxDepth == 4

Repeat(x, n) == [i \in 1..n |-> x]

\* One row <<table, column>> per foreign key that references table(column)
RECURSIVE FkRows(_, _, _, _, _)
FkRows(d, table, column, cols, i) ==
    IF i > Len(cols) THEN <<>>
    ELSE Repeat(cols[i], Cardinality({k \in d.con : /\ k.kind = "f"
                                                    /\ k.tbl = cols[i][1]
                                                    /\ k.col = cols[i][2]
                                                    /\ k.reftbl = table
                                                    /\ k.refcol = column}))
         \o FkRows(d, table, column, cols, i + 1)

\* get_fk_constraints that also returns the columns the column references
get_fk_constraints_both_ways(d, table, column, ord) ==
    FkRows(d, table, column, ord.cols, 1)
    \o SelectSeq(ord.cols, LAMBDA p : \E k \in d.con : /\ k.kind = "f"
                                                       /\ k.tbl = table /\ k.col = column
                                                       /\ k.reftbl = p[1] /\ k.refcol = p[2])

get_fk_constraints(d, table, column, ord) == FkRows(d, table, column, ord.cols, 1)

\* One row <<view, definition>> per view whose rule reads table.column
RECURSIVE ViewRows(_, _, _, _, _)
ViewRows(d, table, column, views, i) ==
    IF i > Len(views) THEN <<>>
    ELSE (IF views[i] \in ViewsOn(d, table, column)
          THEN <<[view |-> views[i], definition |-> d.view[views[i]]]>> ELSE <<>>)
         \o ViewRows(d, table, column, views, i + 1)

get_views(d, table, column, ord) == ViewRows(d, table, column, ord.views, 1)

\* for view in views: cr.execute('DROP VIEW "%s"' % view[0])
RECURSIVE DropViews(_, _, _)
DropViews(cr, views, i) ==
    IF i > Len(views) THEN cr
    ELSE DropViews(execute(cr, <<"DROP VIEW", views[i].view>>), views, i + 1)

\* for view in views: cr.execute('CREATE VIEW "%s" AS %s' % view)
RECURSIVE CreateViews(_, _, _)
CreateViews(cr, views, i) ==
    IF i > Len(views) THEN cr
    ELSE CreateViews(execute(cr, <<"CREATE VIEW", views[i].view, views[i].definition>>),
                     views, i + 1)

RECURSIVE convert_column_int4_to_int8(_, _, _, _, _)
\* convert_column_int4_to_int8 with the widening of each dependent column in
\* "try: ... except Exception: pass"
convert_column_int4_to_int8_soft(cr, table, column, ord, depth) ==
    LET constraints == get_fk_constraints(cr.db, table, column, ord)
        views == get_views(cr.db, table, column, ord)
        c1 == DropViews(cr, views, 1)
        c2 == execute(c1, <<"ALTER COLUMN TYPE", table, column, "int8">>)
        widened[i \in 0..Len(constraints)] ==
            IF i = 0 THEN c2
            ELSE IF widened[i - 1].exc # "none" THEN widened[i - 1]
            ELSE [convert_column_int4_to_int8(widened[i - 1], constraints[i][1],
                                              constraints[i][2], ord, depth + 1)
                     EXCEPT !.exc = "none"]
        c3 == widened[Len(constraints)]
        c4 == IF column = "id" /\ cr.db.version >= SequenceTypeVersion
              THEN execute(c3, <<"ALTER SEQUENCE AS BIGINT", table, column>>)
              ELSE c3
    IN  IF cr.exc # "none" THEN cr
        ELSE IF depth >= MaxDepth THEN [cr EXCEPT !.exc = "RecursionError"]
        ELSE IF cr.db.rel[table] = "none"
             THEN [cr EXCEPT !.exc = "ProgrammingError", !.txn = "aborted"]
        ELSE CreateViews(c4, views, 1)

\* convert_column_int4_to_int8 with the views recreated right after the
\* ALTER of the column, ahead of the widening of the dependent columns
convert_column_int4_to_int8_views_early(cr, table, column, ord, depth) ==
    LET constraints == get_fk_constraints(cr.db, table, column, ord)
        views == get_views(cr.db, table, column, ord)
        c1 == DropViews(cr, views, 1)
        c2 == CreateViews(execute(c1, <<"ALTER COLUMN TYPE", table, column, "int8">>),
                          views, 1)
        widened[i \in 0..Len(constraints)] ==
            IF i = 0 THEN c2
            ELSE convert_column_int4_to_int8(widened[i - 1], constraints[i][1],
                                             constraints[i][2], ord, depth + 1)
        c3 == widened[Len(constraints)]
    IN  IF cr.exc # "none" THEN cr
        ELSE IF depth >= MaxDepth THEN [cr EXCEPT !.exc = "RecursionError"]
        ELSE IF cr.db.rel[table] = "none"
             THEN [cr EXCEPT !.exc = "ProgrammingError", !.txn = "aborted"]
        ELSE IF column = "id" /\ cr.db.version >= SequenceTypeVersion
             THEN execute(c3, <<"ALTER SEQUENCE AS BIGINT", table, column>>)
        ELSE c3

\* convert_column_int4_to_int8 without the loop that recreates the views
convert_column_int4_to_int8_views_lost(cr, table, column, ord, depth) ==
    LET constraints == get_fk_constraints(cr.db, table, column, ord)
        views == get_views(cr.db, table, column, ord)
        c1 == DropViews(cr, views, 1)
        c2 == execute(c1, <<"ALTER COLUMN TYPE", table, column, "int8">>)
        widened[i \in 0..Len(constraints)] ==
            IF i = 0 THEN c2
            ELSE convert_column_int4_to_int8(widened[i - 1], constraints[i][1],
                                             constraints[i][2], ord, depth + 1)
        c3 == widened[Len(constraints)]
    IN  IF cr.exc # "none" THEN cr
        ELSE IF depth >= MaxDepth THEN [cr EXCEPT !.exc = "RecursionError"]
        ELSE IF cr.db.rel[table] = "none"
             THEN [cr EXCEPT !.exc = "ProgrammingError", !.txn = "aborted"]
        ELSE IF column = "id" /\ cr.db.version >= SequenceTypeVersion
             THEN execute(c3, <<"ALTER SEQUENCE AS BIGINT", table, column>>)
        ELSE c3

\* depth: the calls of this function that are on the stack
convert_column_int4_to_int8(cr, table, column, ord, depth) ==
    LET constraints == get_fk_constraints(cr.db, table, column, ord)
        views == get_views(cr.db, table, column, ord)
        c1 == DropViews(cr, views, 1)
        c2 == execute(c1, <<"ALTER COLUMN TYPE", table, column, "int8">>)
        \* for constraint in constraints:
        \*     convert_column_int4_to_int8(cr, constraint[0], constraint[1])
        widened[i \in 0..Len(constraints)] ==
            IF i = 0 THEN c2
            ELSE convert_column_int4_to_int8(widened[i - 1], constraints[i][1],
                                             constraints[i][2], ord, depth + 1)
        c3 == widened[Len(constraints)]
        c4 == IF column = "id" /\ cr.db.version >= SequenceTypeVersion
              THEN execute(c3, <<"ALTER SEQUENCE AS BIGINT", table, column>>)
              ELSE c3
    IN  IF cr.exc # "none" THEN cr
        ELSE IF depth >= MaxDepth THEN [cr EXCEPT !.exc = "RecursionError"]
        ELSE IF cr.db.rel[table] = "none"
             THEN [cr EXCEPT !.exc = "ProgrammingError", !.txn = "aborted"]
        ELSE CreateViews(c4, views, 1)

\* except Exception: pass
except_Exception(cr0) ==
    LET Handle(cr) == [cr EXCEPT !.exc = "none"]
    IN The({Handle(x) : x \in {cr0}})

\* except psycopg2.NotSupportedError: pass
except_NotSupportedError(cr0) ==
    LET Handle(cr) == IF cr.exc = "NotSupportedError" THEN [cr EXCEPT !.exc = "none"] ELSE cr
    IN The({Handle(x) : x \in {cr0}})

\* The three "if" of convert_column: the widening, after which converted is
\* True; else the statement in the savepoint, after which converted is True
\* unless it raised; else, with no exception on its way, the script.
convert_column(cr0, tablename, columnname, columntype, ord) ==
    LET Script(cr) ==
            IF cr.exc # "none" THEN cr
            ELSE execute(cr, <<"CAST SCRIPT", tablename, columnname, columntype>>)
        AfterSavepoint(cr) ==
            IF cr.exc = "none" THEN cr
            ELSE The({Script(x) : x \in {except_NotSupportedError(cr)}})
        InPlace(cr) ==
            LET c1 == savepoint_enter(cr)
                c2 == execute(c1, <<"ALTER COLUMN TYPE", tablename, columnname, columntype>>)
            IN The({AfterSavepoint(x) : x \in {savepoint_exit(cr, c2)}})
        Body(cr) ==
            IF columntype = "int8" /\ column_type(cr.db, tablename, columnname) = "int4"
            THEN convert_column_int4_to_int8(cr, tablename, columnname, ord, 0)
            ELSE InPlace(cr)
    IN The({Body(x) : x \in {cr0}})

(***************************************************************************)
(* Constraints and foreign keys (sql.py:139-203)                           *)
(***************************************************************************)
\* constraint_definition without the COALESCE on the stored comment
constraint_definition_raw(d, tablename, constraintname) ==
    IF ConsOf(d, tablename, constraintname) = {} THEN "None"
    ELSE (CHOOSE k \in ConsOf(d, tablename, constraintname) : TRUE).def

\* COALESCE(d.description, pg_get_constraintdef(c.oid)), None without a row
constraint_definition(d, tablename, constraintname) ==
    IF ConsOf(d, tablename, constraintname) = {} THEN "None"
    ELSE LET k == CHOOSE k \in ConsOf(d, tablename, constraintname) : TRUE
         IN IF k.comment # "NULL" THEN k.comment ELSE k.def

\* add_constraint with the try/except but without the savepoint
add_constraint_no_savepoint(cr0, tablename, constraintname, definition) ==
    LET c1 == execute(cr0, <<"ADD CONSTRAINT", tablename, constraintname, definition>>)
        c2 == execute(c1, <<"COMMENT ON CONSTRAINT", constraintname, tablename, definition>>)
    IN except_warning(c2, "unable to add constraint")

add_constraint(cr0, tablename, constraintname, definition) ==
    LET Body(cr) ==
            LET c1 == savepoint_enter(cr)
                c2 == execute(c1, <<"ADD CONSTRAINT", tablename, constraintname, definition>>)
                c3 == execute(c2, <<"COMMENT ON CONSTRAINT", constraintname, tablename,
                                    definition>>)
                c4 == savepoint_exit(cr, c3)
            IN except_warning(c4, "unable to add constraint")
    IN The({Body(x) : x \in {cr0}})

\* drop_constraint with a savepoint that is released when the statement
\* succeeded and left alone when it failed
drop_constraint_savepoint_left(cr0, tablename, constraintname) ==
    LET Body(cr) ==
            LET c1 == savepoint_enter(cr)
                c2 == execute(c1, <<"DROP CONSTRAINT", tablename, constraintname>>)
                c3 == IF c2.exc = "none" THEN savepoint_exit(cr, c2) ELSE c2
            IN except_warning(c3, "unable to drop constraint")
    IN The({Body(x) : x \in {cr0}})

drop_constraint(cr0, tablename, constraintname) ==
    LET Body(cr) ==
            LET c1 == savepoint_enter(cr)
                c2 == execute(c1, <<"DROP CONSTRAINT", tablename, constraintname>>)
                c3 == savepoint_exit(cr, c2)
            IN except_warning(c3, "unable to drop constraint")
    IN The({Body(x) : x \in {cr0}})

add_foreign_key(cr, tablename1, columnname1, tablename2, columnname2, ondelete) ==
    return(execute(cr, <<"ADD FOREIGN KEY", tablename1, columnname1,
                         tablename2, columnname2, ondelete>>), "True")

\* The rows of fix_foreign_key's query: the foreign keys of tablename1(columnname1)
ForeignKeysOf(d, tablename1, columnname1) ==
    {k \in d.con : k.kind = "f" /\ k.tbl = tablename1 /\ k.col = columnname1}

\* _CONFDELTYPES.get(ondelete.upper(), 'a')
DelType(ondelete) ==
    IF upper(ondelete) \in DOMAIN CONFDELTYPES THEN CONFDELTYPES[upper(ondelete)] ELSE "a"

\* fk[1:] == (tablename2, columnname2, deltype)
FkMatches(fk, tablename2, columnname2, deltype) ==
    fk.reftbl = tablename2 /\ fk.refcol = columnname2 /\ fk.deltype = deltype

\* The loop of fix_foreign_key over the rows from the i-th on
RECURSIVE FixLoop(_, _, _, _, _, _, _, _)
FixLoop(cr, rows, i, found, tablename1, tablename2, columnname2, deltype) ==
    IF i > Len(rows) THEN [cr |-> cr, found |-> found]
    ELSE IF ~found /\ FkMatches(rows[i], tablename2, columnname2, deltype)
         THEN FixLoop(cr, rows, i + 1, TRUE, tablename1, tablename2, columnname2, deltype)
    ELSE FixLoop(drop_constraint(cr, tablename1, rows[i].name), rows, i + 1, found,
                 tablename1, tablename2, columnname2, deltype)

\* fix_foreign_key with _CONFDELTYPES.get(ondelete, 'a'), without upper()
fix_foreign_key_case_sensitive(cr, tablename1, columnname1, tablename2, columnname2, ondelete, rows) ==
    LET deltype == IF ondelete \in DOMAIN CONFDELTYPES THEN CONFDELTYPES[ondelete] ELSE "a"
        AfterLoop(l) ==
            IF ~l.found
            THEN add_foreign_key(l.cr, tablename1, columnname1, tablename2, columnname2,
                                 ondelete)
            ELSE l.cr
    IN The({AfterLoop(x) : x \in {FixLoop(cr, rows, 1, FALSE, tablename1, tablename2, columnname2,
                                 deltype)}})

\* fix_foreign_key as it would be without the pruning of the other foreign keys
fix_foreign_key_keeping(cr, tablename1, columnname1, tablename2, columnname2, ondelete, rows) ==
    IF \E i \in DOMAIN rows : FkMatches(rows[i], tablename2, columnname2, DelType(ondelete))
    THEN cr
    ELSE add_foreign_key(cr, tablename1, columnname1, tablename2, columnname2, ondelete)

\* fix_foreign_key as it would be if it always dropped and recreated
fix_foreign_key_recreating(cr, tablename1, columnname1, tablename2, columnname2, ondelete, rows) ==
    add_foreign_key(FixLoop(cr, rows, 1, FALSE, tablename1, tablename2, columnname2, "-").cr,
                    tablename1, columnname1, tablename2, columnname2, ondelete)

\* rows: the foreign keys of tablename1(columnname1), in the order fetched
fix_foreign_key(cr, tablename1, columnname1, tablename2, columnname2, ondelete, rows) ==
    LET AfterLoop(l) ==
            IF ~l.found
            THEN add_foreign_key(l.cr, tablename1, columnname1, tablename2, columnname2,
                                 ondelete)
            ELSE l.cr
    IN The({AfterLoop(x) : x \in {FixLoop(cr, rows, 1, FALSE, tablename1, tablename2, columnname2,
                                 DelType(ondelete))}})

(***************************************************************************)
(* Indexes and views (sql.py:205-232)                                      *)
(***************************************************************************)
\* cr.rowcount of the query on pg_indexes
index_exists(d, indexname) == Cardinality(IndexesNamed(d, indexname))

\* create_index without the test on index_exists
create_index_unguarded(cr, indexname, tablename, expressions) ==
    execute(cr, <<"CREATE INDEX", indexname, tablename, expressions>>)

create_index(cr, indexname, tablename, expressions) ==
    IF index_exists(cr.db, indexname) # 0 THEN cr
    ELSE execute(cr, <<"CREATE INDEX", indexname, tablename, expressions>>)

create_unique_index(cr, indexname, tablename, expressions) ==
    IF index_exists(cr.db, indexname) # 0 THEN cr
    ELSE execute(cr, <<"CREATE UNIQUE INDEX", indexname, tablename, expressions>>)

drop_index(cr, indexname, tablename) ==
    execute(cr, <<"DROP INDEX IF EXISTS", indexname>>)

drop_view_if_exists(cr, viewname) ==
    execute(cr, <<"DROP VIEW IF EXISTS CASCADE", viewname>>)

(***************************************************************************)
(* pg_varchar and reverse_order (sql.py:237-261).  A Python value is a     *)
(* record of its type and what it holds (a float in tenths); an ORDER BY   *)
(* clause is the sequence of its characters.                               *)
(***************************************************************************)
\* bool(size)
Truthy(size) ==
    CASE size.type = "int" -> size.v # 0
      [] size.type = "bool" -> size.v
      [] size.type = "float" -> size.tenths # 0
      [] size.type = "str" -> size.v # ""
      [] OTHER -> FALSE

\* isinstance(size, int): bool is a subclass of int
IsInstanceInt(size) == size.type \in {"int", "bool"}

\* int(size) of an instance of int
IntOf(size) == IF size.type = "bool" THEN (IF size.v THEN 1 ELSE 0) ELSE size.v

\* pg_varchar with the test of the type before the test of the truth value
pg_varchar_type_first(size) ==
    IF ~IsInstanceInt(size) THEN [ret |-> "None", exc |-> "ValueError"]
    ELSE IF Truthy(size) /\ IntOf(size) > 0
         THEN [ret |-> "VARCHAR(" \o ToString(IntOf(size)) \o ")", exc |-> "none"]
    ELSE [ret |-> "VARCHAR", exc |-> "none"]

pg_varchar(size) ==
    IF Truthy(size)
    THEN IF ~IsInstanceInt(size) THEN [ret |-> "None", exc |-> "ValueError"]
         ELSE IF IntOf(size) > 0
              THEN [ret |-> "VARCHAR(" \o ToString(IntOf(size)) \o ")", exc |-> "none"]
         ELSE [ret |-> "VARCHAR", exc |-> "none"]
    ELSE [ret |-> "VARCHAR", exc |-> "none"]

UpperCase == <<"A", "B", "C", "D", "E", "S">>
LowerCase == <<"a", "b", "c", "d", "e", "s">>

\* str.lower()
lower(s) ==
    [i \in 1..Len(s) |->
        IF \E k \in 1..Len(UpperCase) : UpperCase[k] = s[i]
        THEN LowerCase[CHOOSE k \in 1..Len(UpperCase) : UpperCase[k] = s[i]]
        ELSE s[i]]

\* The first position of character ch in s, Len(s) + 1 when it has none
Find(s, ch) ==
    IF \E i \in 1..Len(s) : s[i] = ch
    THEN CHOOSE i \in 1..Len(s) : s[i] = ch /\ \A j \in 1..(i - 1) : s[j] # ch
    ELSE Len(s) + 1

\* str.split(sep): the pieces between the separators, empty ones included
RECURSIVE split_on(_, _)
split_on(s, sep) ==
    IF Find(s, sep) > Len(s) THEN <<s>>
    ELSE <<SubSeq(s, 1, Find(s, sep) - 1)>> \o split_on(SubSeq(s, Find(s, sep) + 1, Len(s)), sep)

\* str.split(): the words between runs of whitespace
RECURSIVE split(_)
split(s) ==
    IF s = <<>> THEN <<>>
    ELSE IF s[1] = " " THEN split(Tail(s))
    ELSE <<SubSeq(s, 1, Find(s, " ") - 1)>> \o split(SubSeq(s, Find(s, " "), Len(s)))

\* sep.join(items)
RECURSIVE join(_, _)
join(items, sep) ==
    IF items = <<>> THEN <<>>
    ELSE IF Len(items) = 1 THEN items[1]
    ELSE items[1] \o sep \o join(Tail(items), sep)

asc == <<"a", "s", "c">>
desc == <<"d", "e", "s", "c">>

\* reverse_order without the lower()
reverse_order_case_sensitive(order) ==
    LET parts == split_on(order, ",")
        items == [i \in 1..Len(parts) |->
                    LET item == split(parts[i])
                        direction == IF SubSeq(item, 2, Len(item)) = <<desc>>
                                     THEN asc ELSE desc
                    IN IF item = <<>> THEN <<>> ELSE item[1] \o <<" ">> \o direction]
    IN IF \E i \in 1..Len(parts) : split(parts[i]) = <<>>
       THEN [ret |-> "None", exc |-> "IndexError"]
       ELSE [ret |-> join(items, <<",", " ">>), exc |-> "none"]

reverse_order(order) ==
    LET parts == split_on(order, ",")
        \* item = item.lower().split()
        \* direction = 'asc' if item[1:] == ['desc'] else 'desc'
        \* items.append('%s %s' % (item[0], direction))
        items == [i \in 1..Len(parts) |->
                    LET item == split(lower(parts[i]))
                        direction == IF SubSeq(item, 2, Len(item)) = <<desc>>
                                     THEN asc ELSE desc
                    IN IF item = <<>> THEN <<>> ELSE item[1] \o <<" ">> \o direction]
    IN IF \E i \in 1..Len(parts) : split(lower(parts[i])) = <<>>
       THEN [ret |-> "None", exc |-> "IndexError"]
       ELSE [ret |-> join(items, <<",", " ">>), exc |-> "none"]

(***************************************************************************)
(* Calls.  Every action is one call of a function of sql.py on a cursor    *)
(* whose transaction is in order; last records the call and its outcome.   *)
(* An error that reaches the caller leaves the transaction aborted: what   *)
(* the caller then does with it is the caller's business, and no further   *)
(* call is made on that cursor.                                            *)
(***************************************************************************)
EmptyDb ==
    [rel |-> [r \in Rels |-> "none"],
     relcomment |-> [r \in Rels |-> ""],
     view |-> [v \in ViewNames |-> {}],
     col |-> [p \in Tbls \X Cols |-> NoColumn],
     nrows |-> [t \in Tbls |-> 0],
     seq |-> [t \in Tbls |-> "none"],
     con |-> {},
     idx |-> {},
     version |-> SequenceTypeVersion]

NoCall == [op |-> "none"]

Outcome(op, args, before, cr) ==
    [op |-> op, args |-> args, before |-> before, ret |-> cr.ret, exc |-> cr.exc,
     warn |-> cr.warn, trace |-> cr.trace, nsp |-> cr.nsp, sp |-> Len(cr.sp)]

\* The caller is ready for its next call: the transaction is in order and
\* the outcome of the call before has been dealt with
Ready == txn = "ok" /\ last.op = "none"

\* The caller goes on after a call that returned
Continue ==
    /\ txn = "ok"
    /\ last.op # "none"
    /\ last' = NoCall
    /\ UNCHANGED <<db, txn>>

\* The call leaves cursor cr behind
Called(op, args, cr) ==
    \E r \in {cr} :
        /\ db' = r.db
        /\ txn' = r.txn
        /\ last' = Outcome(op, args, db, r)

\* The faults a call of at most n statements can meet
Faults(n, kinds) == {NoFault} \cup [at : 1..n, kind : kinds]

Perms(S) == {p \in [1..Cardinality(S) -> S] : Range(p) = S}

(***************************************************************************)
(* The foreign key reconciler: table b with column a_id, which may         *)
(* reference a.id or b.id, starting from up to MaxStaleFk foreign keys.    *)
(***************************************************************************)
TwoTables ==
    LET d1 == ExecCreateTable(EmptyDb, "a", "SERIAL").db
        d2 == ExecCreateTable(d1, "b", "SERIAL").db
    IN ExecAddColumn(d2, "b", "a_id", "int4").db

RECURSIVE WithFks(_, _, _)
WithFks(d, f, i) ==
    IF i > Len(f) THEN d
    ELSE WithFks(ExecAddForeignKey(d, "b", "a_id", f[i][1], "id", f[i][2]).db, f, i + 1)

InitFk ==
    /\ db \in {WithFks(TwoTables, f, 1) :
                 f \in UNION {[1..k -> Tbls \X {"NO ACTION", "CASCADE", "SET NULL"}] :
                              k \in 0..MaxStaleFk}}
    /\ txn = "ok"
    /\ last = NoCall

FixForeignKey ==
    /\ Ready
    /\ \E t2 \in Tbls, ondelete \in OnDeleteArgs,
          rows \in Perms(ForeignKeysOf(db, "b", "a_id")) :
         \E fault \in Faults(Len(rows) + 1, {"OperationalError"}) :
            Called("fix_foreign_key",
                   [t1 |-> "b", c1 |-> "a_id", t2 |-> t2, c2 |-> "id", ondelete |-> ondelete],
                   fix_foreign_key(Cursor(db, fault), "b", "a_id", t2, "id", ondelete, rows))

NextFk == FixForeignKey \/ Continue

SpecFk == InitFk /\ [][NextFk]_vars

(***************************************************************************)
(* The foreign key reconciler called twice: after a call that returned,    *)
(* the same call again, whose outcome keeps that of the first in "first"   *)
(***************************************************************************)
FixForeignKeyAgain ==
    /\ txn = "ok"
    /\ last.op = "fix_foreign_key"
    /\ last.exc = "none"
    /\ \E rows \in Perms(ForeignKeysOf(db, last.args.t1, last.args.c1)) :
         \E fault \in Faults(Len(rows) + 1, {"OperationalError"}) :
            \E r \in {fix_foreign_key(Cursor(db, fault), last.args.t1, last.args.c1,
                                      last.args.t2, last.args.c2, last.args.ondelete, rows)} :
                /\ db' = r.db
                /\ txn' = r.txn
                /\ last' = [first |-> last]
                           @@ Outcome("fix_foreign_key again", last.args, db, r)

NextFkTwice == FixForeignKey \/ FixForeignKeyAgain \/ Continue

SpecFkTwice == InitFk /\ [][NextFkTwice]_vars

(***************************************************************************)
(* Columns of one table: table a with its id and a column x that holds up  *)
(* to MaxRows values, read by view v, which view w reads in turn.          *)
(***************************************************************************)
SqlTypes == {"int4", "int8", "VARCHAR", "VARCHAR(10)"}

IdVals(n) == [i \in 1..n |-> IF i = 1 THEN "i:1" ELSE "i:0"]

\* The order in which the engine returns rows where the schema leaves no choice
SomeOrd == [cols |-> <<<<"b", "a_id">>, <<"a", "a_id">>>>, views |-> <<"v", "w">>]

\* Table a with n rows: id, and x of type sqltype holding vals
TableA(n, sqltype, vals) ==
    LET d1 == ExecCreateTable(EmptyDb, "a", "SERIAL").db
        d2 == [d1 EXCEPT !.nrows["a"] = n, !.col[<<"a", "id">>].vals = IdVals(n)]
        d3 == ExecAddColumn(d2, "a", "x", sqltype).db
    IN [d3 EXCEPT !.col[<<"a", "x">>].vals = vals]

\* ... read by no view ("none"), by v ("v"), or by v and through it by w ("vw")
WithViews(d, views) ==
    LET d1 == IF views \in {"v", "vw"} THEN ExecCreateView(d, "v", {<<"a", "x">>}).db ELSE d
    IN IF views = "vw" THEN ExecCreateView(d1, "w", {<<"v", "x">>}).db ELSE d1

InitColumn ==
    /\ \E n \in 0..MaxRows, sqltype \in {"int4", "VARCHAR"}, views \in {"none", "v", "vw"} :
         \E vals \in [1..n -> ValsOfType(UdtName(sqltype)) \cup {"NULL"}] :
            db = WithViews(TableA(n, sqltype, vals), views)
    /\ txn = "ok"
    /\ last = NoCall

SetNotNull ==
    /\ Ready
    /\ \E c \in {"id", "x"}, fault \in Faults(1, {"OperationalError"}) :
         Called("set_not_null", [t |-> "a", c |-> c],
                set_not_null(Cursor(db, fault), "a", c))

DropNotNull ==
    /\ Ready
    /\ \E c \in {"id", "x"} :
         Called("drop_not_null", [t |-> "a", c |-> c],
                drop_not_null(Cursor(db, NoFault), "a", c))

ConvertColumn ==
    /\ Ready
    /\ \E columntype \in SqlTypes,
          fault \in Faults(3, {"OperationalError", "NotSupportedError"}) :
         Called("convert_column", [t |-> "a", c |-> "x", columntype |-> columntype],
                convert_column(Cursor(db, fault), "a", "x", columntype, SomeOrd))

NextColumn == SetNotNull \/ DropNotNull \/ ConvertColumn \/ Continue

SpecColumn == InitColumn /\ [][NextColumn]_vars

(***************************************************************************)
(* Tables and their columns: create_model_table, create_column             *)
(***************************************************************************)
\* d with table t of n rows, its id from a sequence
WithTable(d, t, n) ==
    LET d1 == ExecCreateTable(d, t, "SERIAL").db
    IN [d1 EXCEPT !.nrows[t] = n, !.col[<<t, "id">>].vals = IdVals(n)]

InitTable ==
    /\ db \in {EmptyDb} \cup {WithTable(EmptyDb, "a", n) : n \in 0..MaxRows}
    /\ txn = "ok"
    /\ last = NoCall

CreateModelTable ==
    /\ Ready
    /\ \E t \in Tbls, bigint \in BOOLEAN, comment \in {"", "Model"},
          fault \in Faults(2, {"OperationalError"}) :
         Called("create_model_table", [t |-> t, bigint |-> bigint, comment |-> comment],
                create_model_table(Cursor(db, fault), t, comment, bigint))

CreateColumn ==
    /\ Ready
    /\ \E t \in Tbls, columntype \in SqlTypes, comment \in {"", "Field"},
          fault \in Faults(2, {"OperationalError"}) :
         Called("create_column",
                [t |-> t, c |-> "x", columntype |-> columntype, comment |-> comment],
                create_column(Cursor(db, fault), t, "x", columntype, comment))

NextTable == CreateModelTable \/ CreateColumn \/ Continue

SpecTable == InitTable /\ [][NextTable]_vars

(***************************************************************************)
(* Constraints: add_constraint, drop_constraint, constraint_definition     *)
(***************************************************************************)
ConNames == {"n1", "n2"}

\* Table a(id, x) with n rows; with b(id, a_id) and its foreign key to a(id)
\* when referenced
TableAReferenced(n, vals, referenced) ==
    LET d1 == TableA(n, "int4", vals)
        d2 == ExecCreateTable(d1, "b", "SERIAL").db
        d3 == ExecAddColumn(d2, "b", "a_id", "int4").db
    IN IF referenced THEN ExecAddForeignKey(d3, "b", "a_id", "a", "id", "SET NULL").db ELSE d1

InitCons ==
    /\ \E n \in 0..MaxRows, referenced \in BOOLEAN :
         \E vals \in [1..n -> IntVals \cup {"NULL"}] :
            db = TableAReferenced(n, vals, referenced)
    /\ txn = "ok"
    /\ last = NoCall

AddConstraint ==
    /\ Ready
    /\ \E n \in ConNames, definition \in ConDefs, fault \in Faults(2, {"OperationalError"}) :
         Called("add_constraint", [t |-> "a", n |-> n, definition |-> definition],
                add_constraint(Cursor(db, fault), "a", n, definition))

DropConstraint ==
    /\ Ready
    /\ \E n \in ConNames \cup {"a_pkey"}, fault \in Faults(1, {"OperationalError"}) :
         Called("drop_constraint", [t |-> "a", n |-> n],
                drop_constraint(Cursor(db, fault), "a", n))

NextCons == AddConstraint \/ DropConstraint \/ Continue

SpecCons == InitCons /\ [][NextCons]_vars

(***************************************************************************)
(* Indexes: create_index, create_unique_index, drop_index                  *)
(***************************************************************************)
IndexNames == {"i1", "i2"}
IndexExprs == {<<"x">>, <<"id", "x">>}

\* Tables a(id, x) with n rows and b(id, x) with none
TablesWithX(n, vals) ==
    LET d1 == TableA(n, "int4", vals)
        d2 == ExecCreateTable(d1, "b", "SERIAL").db
    IN ExecAddColumn(d2, "b", "x", "int4").db

InitIndex ==
    /\ \E n \in 0..MaxRows :
         \E vals \in [1..n -> IntVals \cup {"NULL"}] :
            db = TablesWithX(n, vals)
    /\ txn = "ok"
    /\ last = NoCall

CreateIndex ==
    /\ Ready
    /\ \E n \in IndexNames, t \in Tbls, exprs \in IndexExprs,
          fault \in Faults(1, {"OperationalError"}) :
         Called("create_index", [n |-> n, t |-> t, exprs |-> exprs],
                create_index(Cursor(db, fault), n, t, exprs))

CreateUniqueIndex ==
    /\ Ready
    /\ \E n \in IndexNames, t \in Tbls, exprs \in IndexExprs,
          fault \in Faults(1, {"OperationalError"}) :
         Called("create_unique_index", [n |-> n, t |-> t, exprs |-> exprs],
                create_unique_index(Cursor(db, fault), n, t, exprs))

DropIndex ==
    /\ Ready
    /\ \E n \in IndexNames :
         Called("drop_index", [n |-> n, t |-> "a"],
                drop_index(Cursor(db, NoFault), n, "a"))

NextIndex == CreateIndex \/ CreateUniqueIndex \/ DropIndex \/ Continue

SpecIndex == InitIndex /\ [][NextIndex]_vars


(***************************************************************************)
(* The operations that open savepoints, one after the other in the         *)
(* caller's transaction: on table a(id, x), alone under views or with      *)
(* b.a_id referencing it                                                    *)
(***************************************************************************)
InitOps == InitColumn \/ InitCons

NextOps ==
    \/ SetNotNull
    \/ DropNotNull
    \/ ConvertColumn
    \/ AddConstraint
    \/ DropConstraint
    \/ Continue

SpecOps == InitOps /\ [][NextOps]_vars

(***************************************************************************)
(* Kinds of relations: table_exists and table_kind on a catalog where a    *)
(* and b may be regular, foreign or temporary tables and v and w views or  *)
(* materialized views                                                      *)
(***************************************************************************)
\* d with a relation named n of the kind given; a view reads a.id when a is
\* a regular table, and no column at all otherwise
WithRelation(d, n, kind) ==
    CASE kind = "none" -> d
      [] kind = "r" -> WithTable(d, n, 0)
      [] kind = "v" -> [d EXCEPT !.rel[n] = "v",
                                 !.view[n] = IF d.rel["a"] = "r" THEN {<<"a", "id">>} ELSE {}]
      [] OTHER -> [d EXCEPT !.rel[n] = kind]

InitKind ==
    /\ \E ka \in {"none", "r", "f", "t"}, kb \in {"none", "r", "f", "t"},
          kv \in {"none", "v", "m"}, kw \in {"none", "v", "m"} :
         db = WithRelation(WithRelation(WithRelation(WithRelation(EmptyDb, "a", ka),
                                                     "b", kb), "v", kv), "w", kw)
    /\ txn = "ok"
    /\ last = NoCall

TableExists ==
    /\ Ready
    /\ \E n \in Rels :
         Called("table_exists", [t |-> n],
                return(Cursor(db, NoFault), IF table_exists(db, n) THEN "True" ELSE "False"))

TableKind ==
    /\ Ready
    /\ \E n \in Rels :
         Called("table_kind", [t |-> n],
                IF table_kind(db, n) = "KeyError"
                THEN [Cursor(db, NoFault) EXCEPT !.exc = "KeyError"]
                ELSE return(Cursor(db, NoFault), table_kind(db, n)))

DropViewIfExists ==
    /\ Ready
    /\ \E v \in ViewNames :
         Called("drop_view_if_exists", [v |-> v],
                drop_view_if_exists(Cursor(db, NoFault), v))

NextKind == TableExists \/ TableKind \/ DropViewIfExists \/ Continue

SpecKind == InitKind /\ [][NextKind]_vars

(***************************************************************************)
(* The pure functions: pg_varchar on sizes of every type, reverse_order on *)
(* clauses of up to MaxItems items                                         *)
(***************************************************************************)
MaxSize == 3
MaxItems == 2

\* The sizes: no argument is the default, 0
Sizes ==
    [type : {"int"}, v : -2..MaxSize]
    \cup [type : {"bool"}, v : BOOLEAN]
    \cup [type : {"float"}, tenths : {-15, 0, 5, 10}]
    \cup [type : {"str"}, v : {"", "0", "10", "abc"}]
    \cup {[type |-> "NoneType"]}

\* An item as written, with the column and the direction it stands for
OrderItems ==
    {[raw |-> c.raw \o d.raw, column |-> c.column, direction |-> d.direction] :
        c \in {[raw |-> <<"a">>, column |-> <<"a">>],
               [raw |-> <<"B">>, column |-> <<"b">>],
               [raw |-> <<" ", "b">>, column |-> <<"b">>],
               [raw |-> <<" ", "A", "b">>, column |-> <<"a", "b">>]},
        d \in {[raw |-> <<>>, direction |-> asc],
               [raw |-> <<" ">> \o asc, direction |-> asc],
               [raw |-> <<" ", "A", "S", "C">>, direction |-> asc],
               [raw |-> <<" ">> \o desc, direction |-> desc],
               [raw |-> <<" ", " ", "D", "e", "s", "c", " ">>, direction |-> desc]}}

InitPure ==
    /\ db = EmptyDb
    /\ txn = "ok"
    /\ last = NoCall

\* The function returned v or raised exc; it has no cursor
Returned(r) == [Cursor(db, NoFault) EXCEPT !.ret = r.ret, !.exc = r.exc]

PgVarchar ==
    /\ Ready
    /\ \/ Called("pg_varchar", [given |-> FALSE, size |-> [type |-> "int", v |-> 0]],
                 Returned(pg_varchar([type |-> "int", v |-> 0])))
       \/ \E size \in Sizes :
            Called("pg_varchar", [given |-> TRUE, size |-> size], Returned(pg_varchar(size)))

ReverseOrder ==
    /\ Ready
    /\ \E n \in 1..MaxItems :
         \E items \in [1..n -> OrderItems] :
            Called("reverse_order",
                   [items |-> items, order |-> join([i \in 1..n |-> items[i].raw], <<",">>)],
                   Returned(reverse_order(join([i \in 1..n |-> items[i].raw], <<",">>))))

NextPure == PgVarchar \/ ReverseOrder \/ Continue

SpecPure == InitPure /\ [][NextPure]_vars

(***************************************************************************)
(* Widening: convert_column_int4_to_int8 on tables a and b, where b.a_id   *)
(* (and a.a_id) may reference a.id, under views v and w                    *)
(***************************************************************************)
\* The orders in which the engine may return the rows of get_fk_constraints
\* and of get_views
Ords ==
    {[cols |-> pc, views |-> pv] :
        pc \in Perms({<<"b", "a_id">>, <<"a", "a_id">>}), pv \in Perms(ViewNames)}

\* What view v reads, by the name of the choice
VDef(choice) ==
    CASE choice = "b.a_id" -> {<<"b", "a_id">>}
      [] choice = "a.id" -> {<<"a", "id">>}
      [] choice = "both" -> {<<"a", "id">>, <<"b", "a_id">>}
      [] choice = "b.id" -> {<<"b", "id">>}
      [] OTHER -> {}

\* What view w reads: the columns of v, or b.a_id
WDef(choice, vchoice) ==
    CASE choice = "v" -> {<<"v", p[2]>> : p \in VDef(vchoice)}
      [] choice = "b.a_id" -> {<<"b", "a_id">>}
      [] OTHER -> {}

\* Tables a and b of n rows each, b.a_id holding vals; nb foreign keys from
\* b.a_id to a.id; with self, a.a_id and its foreign key to a.id
WidenDb(n, vals, nb, self, vchoice, wchoice, version) ==
    LET d1 == WithTable(WithTable(EmptyDb, "a", n), "b", n)
        d2 == [ExecAddColumn(d1, "b", "a_id", "int4").db
                  EXCEPT !.col[<<"b", "a_id">>].vals = vals]
        d3 == WithFks(d2, [i \in 1..nb |-> <<"a", "SET NULL">>], 1)
        d4 == IF self
              THEN ExecAddForeignKey(ExecAddColumn(d3, "a", "a_id", "int4").db,
                                     "a", "a_id", "a", "id", "SET NULL").db
              ELSE d3
        d5 == IF vchoice # "none" THEN ExecCreateView(d4, "v", VDef(vchoice)).db ELSE d4
        d6 == IF wchoice # "none" THEN ExecCreateView(d5, "w", WDef(wchoice, vchoice)).db
              ELSE d5
    IN [d6 EXCEPT !.version = version]

InitWiden ==
    /\ \E n \in 0..MaxRows, nb \in 0..2, self \in BOOLEAN,
          vchoice \in {"none", "b.a_id", "a.id", "both", "b.id"},
          wchoice \in {"none", "v", "b.a_id"},
          version \in {SequenceTypeVersion - 1, SequenceTypeVersion} :
         /\ wchoice = "v" => vchoice # "none"
         /\ \E vals \in [1..n -> {"NULL", "i:1"}] :
               db = WidenDb(n, vals, nb, self, vchoice, wchoice, version)
    /\ txn = "ok"
    /\ last = NoCall

ConvertColumnInt4ToInt8 ==
    /\ Ready
    /\ \E p \in {<<"a", "id">>, <<"b", "a_id">>, <<"a", "a_id">>, <<"b", "id">>},
          ord \in Ords, fault \in Faults(8, {"OperationalError"}) :
         Called("convert_column_int4_to_int8", [t |-> p[1], c |-> p[2]],
                convert_column_int4_to_int8(Cursor(db, fault), p[1], p[2], ord, 0))

NextWiden == ConvertColumnInt4ToInt8 \/ Continue

SpecWiden == InitWiden /\ [][NextWiden]_vars

(***************************************************************************)
(* Widening over foreign key graphs: tables a and b with columns id and    *)
(* a_id, all int4, each a key of its table, and any of the foreign keys of *)
(* FkEdges between them, cycles included                                   *)
(***************************************************************************)
\* <<referencing column, referenced column>>
FkEdges ==
    << <<<<"b", "a_id">>, <<"a", "id">>>>,
       <<<<"a", "a_id">>, <<"a", "id">>>>,
       <<<<"a", "a_id">>, <<"b", "a_id">>>>,
       <<<<"b", "id">>, <<"a", "a_id">>>>,
       <<<<"b", "a_id">>, <<"a", "a_id">>>>,
       <<<<"a", "id">>, <<"b", "a_id">>>> >>

GraphCols == {<<"a", "id">>, <<"a", "a_id">>, <<"b", "id">>, <<"b", "a_id">>}

GraphOrd ==
    [cols |-> <<<<"b", "a_id">>, <<"a", "a_id">>, <<"b", "id">>, <<"a", "id">>>>,
     views |-> <<"v", "w">>]

\* Tables a and b of no rows, with a_id unique in each
GraphTables ==
    LET d1 == WithTable(WithTable(EmptyDb, "a", 0), "b", 0)
        d2 == ExecAddColumn(ExecAddColumn(d1, "a", "a_id", "int4").db, "b", "a_id", "int4").db
    IN [d2 EXCEPT !.con = @ \cup
           {Con(t, t \o "_a_id_key", "u", "a_id", "-", NoCol, "-", "UNIQUE (a_id)") : t \in Tbls}]

RECURSIVE WithEdges(_, _, _)
WithEdges(d, chosen, i) ==
    IF i > Len(FkEdges) THEN d
    ELSE WithEdges(IF i \in chosen
                   THEN ExecAddForeignKey(d, FkEdges[i][1][1], FkEdges[i][1][2],
                                          FkEdges[i][2][1], FkEdges[i][2][2], "SET NULL").db
                   ELSE d,
                   chosen, i + 1)

InitGraph ==
    /\ \E chosen \in SUBSET (1..Len(FkEdges)) : db = WithEdges(GraphTables, chosen, 1)
    /\ txn = "ok"
    /\ last = NoCall

WidenInGraph ==
    /\ Ready
    /\ \E p \in GraphCols, fault \in Faults(2, {"OperationalError"}) :
         Called("convert_column_int4_to_int8", [t |-> p[1], c |-> p[2]],
                convert_column_int4_to_int8(Cursor(db, fault), p[1], p[2], GraphOrd, 0))

NextGraph == WidenInGraph \/ Continue

SpecGraph == InitGraph /\ [][NextGraph]_vars

(***************************************************************************)
(* The wizard that merges requisition lines                                *)
(* (purchase_requisition_merge.py).  Here db holds the records: the        *)
(* requisitions by id, the lines with the requisition, the planned date    *)
(* and the number of procurements of each, the requisition on whose        *)
(* workflow the procurement of a line waits, and the next id of a          *)
(* requisition.                                                            *)
(***************************************************************************)
MaxReqs == 3
ReqIds == 1..MaxReqs
LineIds == {1, 2}
Warehouses == {"w1", "w2"}
Companies == {"c1", "c2"}

NoReq == [exists |-> FALSE, warehouse_id |-> "False", company_id |-> "False", date_end |-> 0]

\* Requisition 1 of warehouse w1 and company c1, requisition 2 as given,
\* and the lines as given
Requisitions(wh, co, lines) ==
    [req |-> [r \in ReqIds |->
                 IF r = 1 THEN [NoReq EXCEPT !.exists = TRUE, !.warehouse_id = "w1",
                                             !.company_id = "c1"]
                 ELSE IF r = 2 THEN [NoReq EXCEPT !.exists = TRUE, !.warehouse_id = wh,
                                                  !.company_id = co]
                 ELSE NoReq],
     line |-> lines,
     subflow |-> [l \in LineIds |-> IF lines[l].procs > 0 THEN lines[l].requisition_id ELSE 0],
     next |-> 3]

\* orm.except_orm(...) as a statement of its own: the exception is built and
\* dropped, nothing is raised
except_orm(cr, name, msg) == cr

check_requisitions(cr, requisitions) ==
    LET checked[i \in 0..Len(requisitions)] ==
            IF i <= 1 THEN cr
            ELSE LET c1 == IF cr.db.req[requisitions[i]].warehouse_id
                              # cr.db.req[requisitions[1]].warehouse_id
                           THEN except_orm(checked[i - 1], "Error",
                                           "need to have the same warehouse setting")
                           ELSE checked[i - 1]
                 IN IF cr.db.req[requisitions[i]].company_id
                       # cr.db.req[requisitions[1]].company_id
                    THEN except_orm(c1, "Error", "need to have the same company")
                    ELSE c1
    IN return(checked[Len(requisitions)], "True")

\* requisition_obj.create(cr, uid, vals): a record with the next id
OrmCreate(cr, vals) ==
    IF cr.exc # "none" THEN cr
    ELSE [cr EXCEPT !.db.req[cr.db.next] = [NoReq EXCEPT !.exists = TRUE,
                                                         !.warehouse_id = vals.warehouse_id,
                                                         !.company_id = vals.company_id],
                    !.db.next = @ + 1]

\* The UPDATE of wkf_workitem for one line: the workitems of its
\* procurements that wait on the old requisition wait on the new one;
\* "in %s" with an empty tuple is a syntax error
UpdateSubflow(cr, line, old, new) ==
    IF cr.exc # "none" THEN cr
    ELSE IF cr.db.line[line].procs = 0
         THEN [cr EXCEPT !.exc = "ProgrammingError", !.txn = "aborted",
                         !.trace = Append(@, [stmt |-> <<"UPDATE wkf_workitem", line, old, new>>,
                                              err |-> "ProgrammingError"])]
    ELSE [cr EXCEPT !.db.subflow[line] = IF @ = old THEN new ELSE @,
                    !.trace = Append(@, [stmt |-> <<"UPDATE wkf_workitem", line, old, new>>,
                                         err |-> "none"])]

\* line.write({'requisition_id': target_requisition_id})
LineWrite(cr, line, target) ==
    IF cr.exc # "none" THEN cr ELSE [cr EXCEPT !.db.line[line].requisition_id = target]

\* requisition_obj.write(cr, uid, id, {'date_end': date})
ReqWrite(cr, id, date) ==
    IF cr.exc # "none" THEN cr ELSE [cr EXCEPT !.db.req[id].date_end = date]

\* requisition_obj.unlink(cr, uid, ids)
OrmUnlink(cr, ids) ==
    IF cr.exc # "none" THEN cr
    ELSE [cr EXCEPT !.db.req = [r \in ReqIds |-> IF r \in ids THEN NoReq ELSE @[r]]]

\* requisitions: list(set(...)) of the requisitions of the lines, in the
\* order the set gives them
merge_requisition_lines(cr, line_ids, requisitions) ==
    LET c0 == IF line_ids = <<>>
              THEN except_orm(cr, "Error", "Please select a number of requisition lines")
              ELSE cr
        c1 == check_requisitions(c0, requisitions)
        target == cr.db.next
        c2 == OrmCreate(c1, [warehouse_id |-> cr.db.req[requisitions[1]].warehouse_id,
                             company_id |-> cr.db.req[requisitions[1]].company_id])
        moved[i \in 0..Len(line_ids)] ==
            IF i = 0 THEN c2
            ELSE LineWrite(UpdateSubflow(moved[i - 1], line_ids[i],
                                         cr.db.line[line_ids[i]].requisition_id, target),
                           line_ids[i], target)
        c3 == moved[Len(line_ids)]
        minimum_date_planned ==
            CHOOSE d \in {cr.db.line[l].date_planned : l \in Range(line_ids)} :
                \A l \in Range(line_ids) : d <= cr.db.line[l].date_planned
        c4 == ReqWrite(c3, target, minimum_date_planned)
        c5 == OrmUnlink(c4, {r \in Range(requisitions) :
                                ~\E l \in LineIds : c4.db.line[l].requisition_id = r})
    IN IF requisitions = <<>> THEN [c1 EXCEPT !.exc = "IndexError"]
       ELSE return(c5, "act_window")

\* The ids of S in increasing order
Sorted(S) == CHOOSE s \in Perms(S) : \A i, j \in 1..Len(s) : i < j => s[i] < s[j]

InitMerge ==
    /\ \E wh \in Warehouses, co \in Companies :
         \E lines \in [LineIds -> [requisition_id : {1, 2}, date_planned : {1, 2},
                                   procs : {0, 1}]] :
            db = Requisitions(wh, co, lines)
    /\ txn = "ok"
    /\ last = NoCall

CheckRequisitions ==
    /\ Ready
    /\ \E S \in SUBSET {r \in ReqIds : db.req[r].exists} :
         \E requisitions \in Perms(S) :
            Called("check_requisitions", [requisitions |-> requisitions],
                   check_requisitions(Cursor(db, NoFault), requisitions))

MergeRequisitionLines ==
    /\ Ready
    /\ db.next <= MaxReqs
    /\ \E S \in SUBSET LineIds :
         \E requisitions \in Perms({db.line[l].requisition_id : l \in S}) :
            Called("merge_requisition_lines", [line_ids |-> Sorted(S)],
                   merge_requisition_lines(Cursor(db, NoFault), Sorted(S), requisitions))

NextMerge == CheckRequisitions \/ MergeRequisitionLines \/ Continue

SpecMerge == InitMerge /\ [][NextMerge]_vars

(***************************************************************************)
(* Properties of the foreign key reconciler                                *)
(***************************************************************************)
FixReturned == last.op = "fix_foreign_key" /\ last.exc = "none"

ValidOnDelete(ondelete) == upper(ondelete) \in DOMAIN CONFDELTYPES

\* Foreign key k is the one the call last.args asks for
Desired(k) ==
    /\ k.reftbl = last.args.t2
    /\ k.refcol = last.args.c2
    /\ k.deltype = (IF ValidOnDelete(last.args.ondelete)
                    THEN CONFDELTYPES[upper(last.args.ondelete)] ELSE "a")

FksBefore == {k \in last.before.con : k.kind = "f" /\ k.tbl = last.args.t1 /\ k.col = last.args.c1}
FksAfter == {k \in db.con : k.kind = "f" /\ k.tbl = last.args.t1 /\ k.col = last.args.c1}

\* The constraints whose DROP CONSTRAINT the engine rejected during the call
DropsRejected ==
    {last.trace[i].stmt[3] : i \in {i \in DOMAIN last.trace :
        last.trace[i].stmt[1] = "DROP CONSTRAINT" /\ last.trace[i].err # "none"}}

Created ==
    \E i \in DOMAIN last.trace :
        last.trace[i].stmt[1] = "ADD FOREIGN KEY" /\ last.trace[i].err = "none"

\* C3 as stated: after fix_foreign_key returns there is exactly one foreign key
\* on the source column, it is the requested one, and the call returned True
\* when no foreign key matched before.
C3_ExactlyOneForeignKey ==
    (FixReturned /\ ValidOnDelete(last.args.ondelete)) =>
        /\ Cardinality(FksAfter) = 1
        /\ \A k \in FksAfter : Desired(k)
        /\ (~\E k \in FksBefore : Desired(k)) => last.ret = "True"

\* C3 amended: after fix_foreign_key returns, the foreign keys on the source
\* column are one requested foreign key whose drop was not attempted, and
\* besides it exactly the earlier foreign keys whose DROP CONSTRAINT the engine
\* rejected (drop_constraint swallows the rejection); so there is exactly one
\* when no drop was rejected. The call returned True when none matched before.
C3_OneForeignKeyButRejectedDrops ==
    (FixReturned /\ ValidOnDelete(last.args.ondelete)) =>
        /\ \E k \in FksAfter :
              /\ Desired(k)
              /\ k.name \notin DropsRejected
              /\ FksAfter \ {k} = {j \in FksBefore : j.name \in DropsRejected}
        /\ (DropsRejected = {} => Cardinality(FksAfter) = 1)
        /\ (~\E k \in FksBefore : Desired(k)) => last.ret = "True"

\* C3 witness: two stale foreign keys to different targets, none the requested
\* one, were pruned and the requested one created
C3_Witness ==
    /\ FixReturned /\ ValidOnDelete(last.args.ondelete)
    /\ Cardinality(FksBefore) = 2
    /\ \E j, k \in FksBefore : j.reftbl # k.reftbl
    /\ ~\E k \in FksBefore : Desired(k)
    /\ Cardinality(FksAfter) = 1
    /\ last.ret = "True"

\* C4 as stated: when a foreign key matched, it is kept, none is created and
\* the call returns the boolean False; the result is True exactly when a
\* create happened.
C4_ReturnsFalseWhenMatched ==
    FixReturned =>
        /\ (\E k \in FksBefore : Desired(k)) =>
              /\ \E k \in FksBefore \cap FksAfter : Desired(k)
              /\ ~Created
              /\ last.ret = "False"
        /\ (last.ret = "True") <=> Created

\* C4 amended: when a foreign key matched, one matching foreign key is kept as
\* it was, none is created, and the call returns None (no value, not the
\* boolean False); the result is True exactly when a create happened.
C4_ReturnsNoneWhenMatched ==
    FixReturned =>
        /\ (\E k \in FksBefore : Desired(k)) =>
              /\ \E k \in FksBefore \cap FksAfter : Desired(k)
              /\ FksAfter \subseteq FksBefore
              /\ ~Created
              /\ last.ret = "None"
        /\ (last.ret = "True") <=> Created
        /\ last.ret \in {"None", "True"}

\* C4 witness: the requested foreign key was there, next to a stale one
C4_Witness ==
    /\ FixReturned
    /\ \E k \in FksBefore : Desired(k)
    /\ \E k \in FksBefore : ~Desired(k)
    /\ last.ret = "None"
    /\ Cardinality(FksAfter) = 1

\* ---- set_not_null, convert_column ----

NullsBefore == "NULL" \in Range(last.before.col[<<last.args.t, last.args.c>>].vals)

\* A statement sent next on the same connection, here DROP NOT NULL on the
\* same column, goes through
LaterStatementSucceeds ==
    execute([Cursor(db, NoFault) EXCEPT !.txn = txn],
            <<"DROP NOT NULL", last.args.t, last.args.c>>).exc = "none"

\* C2: set_not_null on a column that holds a NULL lets no exception escape;
\* the statement is rejected inside the savepoint, which is rolled back, so
\* the catalog is as before and the column still nullable; one warning is
\* emitted; the transaction is in order, no savepoint is left open, and a
\* later statement on the connection succeeds.
C2_SetNotNullSoftFailure ==
    (last.op = "set_not_null" /\ NullsBefore) =>
        /\ last.exc = "none"
        /\ Len(last.trace) = 1 /\ last.trace[1].err # "none"
        /\ last.nsp = 1 /\ last.sp = 0
        /\ db = last.before
        /\ ~db.col[<<last.args.t, last.args.c>>].notnull
        /\ Len(last.warn) = 1
        /\ txn = "ok"
        /\ LaterStatementSucceeds

\* C2 witness: the engine itself rejected SET NOT NULL because of the NULL
C2_Witness ==
    /\ last.op = "set_not_null" /\ NullsBefore
    /\ last.trace[1].err = "IntegrityError"
    /\ Len(last.warn) = 1
    /\ db = last.before
    /\ db.nrows[last.args.t] > 0

\* The call is convert_column and did not take the int4-to-int8 route
ConvertedInPlaceOrByScript ==
    /\ last.op = "convert_column"
    /\ ~(last.args.columntype = "int8"
         /\ last.before.col[<<last.args.t, last.args.c>>].type = "int4")

HasTargetType ==
    /\ db.col[<<last.args.t, last.args.c>>].type = UdtName(last.args.columntype)
    /\ db.col[<<last.args.t, last.args.c>>].len = MaxLength(last.args.columntype)

Refused == last.trace[1].stmt[1] = "ALTER COLUMN TYPE" /\ last.trace[1].err # "none"

FallbackExecuted == Len(last.trace) = 2 /\ last.trace[2].stmt[1] = "CAST SCRIPT"

\* C5 as stated: whenever the engine refuses the in-place ALTER COLUMN TYPE
\* of a conversion that is not int4 to int8, the error does not reach the
\* caller, the fallback script is executed and the column ends with the
\* target type.
C5_FallbackWheneverRefused ==
    (ConvertedInPlaceOrByScript /\ Refused) =>
        /\ last.exc = "none"
        /\ FallbackExecuted
        /\ HasTargetType

\* C5 amended: the in-place ALTER COLUMN TYPE runs in a savepoint that is
\* released or rolled back.  Only a refusal raised as NotSupportedError is
\* swallowed: then the fallback script is executed, and the column ends with
\* the target type when the script goes through, while an error of the script
\* reaches the caller.  Any other refusal reaches the caller, with the
\* catalog as before and no fallback.
C5_FallbackWhenNotSupported ==
    ConvertedInPlaceOrByScript =>
        /\ last.trace[1].stmt[1] = "ALTER COLUMN TYPE"
        /\ last.nsp = 1 /\ last.sp = 0
        /\ last.trace[1].err = "none" =>
              last.exc = "none" /\ Len(last.trace) = 1 /\ HasTargetType
        /\ last.trace[1].err = "NotSupportedError" =>
              /\ FallbackExecuted
              /\ last.exc = last.trace[2].err
              /\ last.trace[2].err = "none" => (HasTargetType /\ txn = "ok")
              /\ last.trace[2].err # "none" => db = last.before
        /\ last.trace[1].err \notin {"none", "NotSupportedError"} =>
              /\ last.exc = last.trace[1].err
              /\ Len(last.trace) = 1
              /\ db = last.before
              /\ txn = "ok"

\* C5 witness: a view reads the column, the engine refused the change of
\* type as not supported, and the script gave the column its new type
C5_Witness ==
    /\ ConvertedInPlaceOrByScript
    /\ ViewsOn(last.before, last.args.t, last.args.c) # {}
    /\ last.before.col[<<last.args.t, last.args.c>>].type # UdtName(last.args.columntype)
    /\ last.trace[1].err = "NotSupportedError"
    /\ FallbackExecuted /\ last.exc = "none"
    /\ HasTargetType

\* ---- create_model_table, create_column ----

\* C7: for a table name that did not exist before (table_exists false),
\* once create_model_table has returned, with either value of bigint,
\* table_exists is true and table_kind is 'r'.
C7_CreatedTableIsRegular ==
    (/\ last.op = "create_model_table"
     /\ last.exc = "none"
     /\ ~table_exists(last.before, last.args.t)) =>
        /\ table_exists(db, last.args.t)
        /\ table_kind(db, last.args.t) = "r"

\* C7 witness: a table with a bigint id and a comment was created next to
\* another one
C7_Witness ==
    /\ last.op = "create_model_table" /\ last.exc = "none"
    /\ last.args.bigint /\ last.args.comment # ""
    /\ last.before.rel[last.args.t] = "none"
    /\ \E t \in Tbls \ {last.args.t} : last.before.rel[t] = "r"
    /\ db.rel[last.args.t] = "r"
    /\ db.col[<<last.args.t, "id">>].type = "int8"

\* create_column has returned, on a table that was there and did not have
\* the column
ColumnCreated ==
    /\ last.op = "create_column"
    /\ last.exc = "none"
    /\ last.before.rel[last.args.t] = "r"
    /\ last.before.col[<<last.args.t, last.args.c>>].type = "none"

\* C8 as stated: column_exists is false before create_column and true after
\* it, and the new column is nullable with column_type equal to the
\* requested type.
C8_ColumnTypeIsRequestedType ==
    ColumnCreated =>
        /\ column_exists(last.before, last.args.t, last.args.c) = 0
        /\ column_exists(db, last.args.t, last.args.c) = 1
        /\ table_columns(db, last.args.t)[last.args.c].is_nullable = "YES"
        /\ column_type(db, last.args.t, last.args.c) = last.args.columntype

\* C8 amended: column_exists is false (0 rows) before create_column and
\* true (1 row) after it, the new column is nullable, and column_type is the
\* engine's name (udt_name) of the requested type: the requested type itself
\* for int4 and int8, varchar for VARCHAR and VARCHAR(10), whose length is
\* character_maximum_length.
C8_ColumnTypeIsUdtName ==
    ColumnCreated =>
        /\ column_exists(last.before, last.args.t, last.args.c) = 0
        /\ column_exists(db, last.args.t, last.args.c) = 1
        /\ table_columns(db, last.args.t)[last.args.c].is_nullable = "YES"
        /\ last.args.columntype \in {"int4", "int8"} =>
              column_type(db, last.args.t, last.args.c) = last.args.columntype
        /\ last.args.columntype \in {"VARCHAR", "VARCHAR(10)"} =>
              column_type(db, last.args.t, last.args.c) = "varchar"
        /\ table_columns(db, last.args.t)[last.args.c].character_maximum_length
              = (IF last.args.columntype = "VARCHAR(10)" THEN 10 ELSE 0)

\* C8 witness: a VARCHAR(10) column with a comment was added to a table
\* that has rows
C8_Witness ==
    /\ ColumnCreated
    /\ last.args.columntype = "VARCHAR(10)" /\ last.args.comment # ""
    /\ db.nrows[last.args.t] > 0
    /\ column_type(db, last.args.t, last.args.c) = "varchar"
    /\ db.col[<<last.args.t, last.args.c>>].vals = Nulls(db.nrows[last.args.t])

\* ---- add_constraint, drop_constraint, constraint_definition ----

\* One of the statements of the call was rejected
StatementRejected == \E i \in DOMAIN last.trace : last.trace[i].err # "none"

\* A statement sent next on the same connection goes through
TransactionContinues ==
    /\ txn = "ok"
    /\ execute([Cursor(db, NoFault) EXCEPT !.txn = txn],
               <<"DROP INDEX IF EXISTS", "i1">>).exc = "none"

\* C9: when a statement of add_constraint (ADD CONSTRAINT or COMMENT) or of
\* drop_constraint (DROP CONSTRAINT) is rejected, no exception reaches the
\* caller, the savepoint is rolled back and gone, the catalog is exactly as
\* before the call (a constraint that add_constraint was to add is not
\* there), one warning is recorded and the transaction can continue.
C9_ConstraintSoftFailure ==
    (last.op \in {"add_constraint", "drop_constraint"} /\ StatementRejected) =>
        /\ last.exc = "none"
        /\ last.nsp = 1 /\ last.sp = 0
        /\ db = last.before
        /\ (last.op = "add_constraint" /\ ConsOf(last.before, last.args.t, last.args.n) = {})
              => ConsOf(db, last.args.t, last.args.n) = {}
        /\ Len(last.warn) = 1
        /\ TransactionContinues

\* C9 witness: ADD CONSTRAINT went through and COMMENT was rejected
C9_Witness ==
    /\ last.op = "add_constraint"
    /\ Len(last.trace) = 2
    /\ last.trace[1].err = "none" /\ last.trace[2].err # "none"
    /\ ConsOf(db, last.args.t, last.args.n) = {}
    /\ Len(last.warn) = 1

\* add_constraint went through: no statement rejected, nothing warned
ConstraintAdded ==
    /\ last.op = "add_constraint"
    /\ last.exc = "none"
    /\ last.warn = <<>>

\* C10: after add_constraint(T, n, d) succeeded, constraint_definition(T, n)
\* is the text d, not the engine's rendering of it; and in every state
\* constraint_definition is None for a name that is no constraint of T.
C10_DefinitionRoundTrip ==
    /\ ConstraintAdded =>
          constraint_definition(db, last.args.t, last.args.n) = last.args.definition
    /\ \A t \in Tbls, n \in ConNames \cup {"a_pkey"} :
          (~\E k \in db.con : k.tbl = t /\ k.name = n)
              => constraint_definition(db, t, n) = "None"

\* C10 witness: the engine renders the definition differently from the text
\* passed, and another name is no constraint of the table
C10_Witness ==
    /\ ConstraintAdded
    /\ \E k \in db.con : /\ k.tbl = last.args.t /\ k.name = last.args.n
                          /\ k.def # last.args.definition
                          /\ k.comment = last.args.definition
    /\ \E n \in ConNames : ~\E k \in db.con : k.tbl = last.args.t /\ k.name = n

\* ---- create_index, create_unique_index ----

IndexesBefore == {i \in last.before.idx : i.name = last.args.n}
IndexesAfter == {i \in db.idx : i.name = last.args.n}

\* C6: a call of create_index or create_unique_index with the name of an
\* index that is there (created by an earlier call) does not raise, sends no
\* statement and leaves the catalog as it was, whatever table and expressions
\* it names: the index of that name is still the earlier one, and the only
\* one.  After any call that returned there is exactly one index of the name.
C6_CreateIndexIdempotent ==
    last.op \in {"create_index", "create_unique_index"} =>
        /\ IndexesBefore # {} =>
              /\ last.exc = "none"
              /\ last.trace = <<>>
              /\ db = last.before
              /\ IndexesAfter = IndexesBefore
        /\ last.exc = "none" => Cardinality(IndexesAfter) = 1

\* C6 witness: the second call names another table, other expressions and
\* asks for a plain index where the first made a unique one
C6_Witness ==
    /\ last.op = "create_index" /\ last.exc = "none"
    /\ \E i \in IndexesBefore : /\ i.tbl # last.args.t
                                 /\ i.exprs # last.args.exprs
                                 /\ i.unique
    /\ IndexesAfter = IndexesBefore

\* ---- convert_column_int4_to_int8 ----

\* convert_column_int4_to_int8 has completed on a column that was int4
Widened ==
    /\ last.op = "convert_column_int4_to_int8"
    /\ last.exc = "none"
    /\ last.before.col[<<last.args.t, last.args.c>>].type = "int4"

\* The columns with a foreign key to the column of the call
Referencing ==
    {<<k.tbl, k.col>> : k \in {k \in last.before.con :
        k.kind = "f" /\ k.reftbl = last.args.t /\ k.refcol = last.args.c}}

\* C1: after convert_column_int4_to_int8 has completed on an int4 column,
\* the column and every column with a foreign key to it have type int8, and
\* every view that was there is there with the definition it had, over rows
\* and constraints that are the same as before: so with A.id, B.a_id a
\* foreign key to A.id and a view V on B, A.id and B.a_id are int8 and V is
\* the same query over the same rows.
C1_WidenedWithViews ==
    Widened =>
        /\ db.col[<<last.args.t, last.args.c>>].type = "int8"
        /\ \A p \in Referencing : db.col[p].type = "int8"
        /\ \A v \in ViewNames :
              last.before.rel[v] = "v" => (db.rel[v] = "v" /\ db.view[v] = last.before.view[v])
        /\ \A p \in Tbls \X Cols : db.col[p].vals = last.before.col[p].vals
        /\ db.nrows = last.before.nrows
        /\ db.con = last.before.con

\* C1 witness: a.id was widened with b.a_id, a foreign key to it that holds
\* values, while view v read b.a_id
C1_Witness ==
    /\ Widened
    /\ last.args.t = "a" /\ last.args.c = "id"
    /\ <<"b", "a_id">> \in Referencing
    /\ last.before.col[<<"b", "a_id">>].type = "int4"
    /\ "i:1" \in Range(last.before.col[<<"b", "a_id">>].vals)
    /\ <<"b", "a_id">> \in last.before.view["v"]
    /\ db.col[<<"a", "id">>].type = "int8" /\ db.col[<<"b", "a_id">>].type = "int8"
    /\ db.rel["v"] = "v"

\* The statements of the call that the engine rejected, by position
FailedAt == {i \in 1..Len(last.trace) : last.trace[i].err # "none"}

TransactionEnd == {"COMMIT", "ROLLBACK", "END", "ABORT"}

\* C12: whatever the operations called one after the other, none sends a
\* statement that commits or rolls back the caller's transaction, each
\* leaves as many savepoints open as it found (none), whether it returns or
\* raises, and the transaction of a call that returned is in order, with the
\* failures it swallowed rolled back to its own savepoint only.
C12_SavepointsClosedTransactionKept ==
    last.op # "none" =>
        /\ last.sp = 0
        /\ \A i \in 1..Len(last.trace) : last.trace[i].stmt[1] \notin TransactionEnd
        /\ last.exc = "none" => txn = "ok"
        /\ last.warn # <<>> => last.nsp > 0

\* C12 witness: after an earlier add_constraint whose constraint n1 is still
\* there, drop_constraint opened a savepoint, had its statement rejected and
\* returned with the savepoint closed and the transaction in order
C12_Witness ==
    /\ last.op = "drop_constraint"
    /\ last.nsp = 1
    /\ last.sp = 0
    /\ FailedAt = {1}
    /\ last.exc = "none"
    /\ txn = "ok"
    /\ \E k \in db.con : k.name = "n1"
    /\ \A k \in last.before.con : k \in db.con

\* ---- table_exists, table_kind ----
\* C13: for every relation name of the catalog, table_kind is None exactly
\* when table_exists is false, and a kind that is not None is one of 'r',
\* 'v', 'f', 't': for regular tables, views, materialized views, foreign
\* tables and temporary tables alike.
C13_KindIsNoneIffTableMissing ==
    \A n \in Rels :
        /\ (table_kind(db, n) = "None") <=> ~table_exists(db, n)
        /\ table_kind(db, n) \in {"None", "r", "v", "f", "t"}

\* ---- create_column on a column that exists, create_model_table on a table
\* that exists ----
\* create_column was called for a column that was there with the very type
\* requested
ColumnRecreated ==
    /\ last.op = "create_column"
    /\ last.before.rel[last.args.t] = "r"
    /\ last.before.col[<<last.args.t, last.args.c>>].type = UdtName(last.args.columntype)
    /\ last.before.col[<<last.args.t, last.args.c>>].len = MaxLength(last.args.columntype)

\* C14 as stated: create_column for a column that already exists with that
\* exact type is a no-op: no error, and the columns of the table are what
\* they were.
C14_RecreatedColumnIsNoOp ==
    ColumnRecreated =>
        /\ last.exc = "none"
        /\ db.col = last.before.col

\* C14 amended: create_column for a column that already exists with that
\* exact type raises: its one statement, the ADD COLUMN, is rejected (as a
\* duplicate column, ProgrammingError, when nothing else is in its way), the
\* error reaches the caller, no comment is set, and the columns of the table
\* are what they were.
C14_RecreatedColumnIsRejected ==
    ColumnRecreated =>
        /\ Len(last.trace) = 1
        /\ last.trace[1].stmt[1] = "ADD COLUMN"
        /\ last.exc = last.trace[1].err
        /\ last.exc # "none"
        /\ Engine(last.before, last.trace[1].stmt).err = "ProgrammingError"
        /\ db = last.before
        /\ txn = "aborted"

\* C14 witness: column x of type VARCHAR(10), added by an earlier call to a
\* table with rows, was created again with a comment: duplicate column
C14_Witness ==
    /\ ColumnRecreated
    /\ last.args.columntype = "VARCHAR(10)" /\ last.args.comment # ""
    /\ last.before.nrows[last.args.t] > 0
    /\ last.exc = "ProgrammingError"
    /\ db.col = last.before.col

\* create_model_table was called with the name of a table that was there
TableRecreated ==
    /\ last.op = "create_model_table"
    /\ last.before.rel[last.args.t] # "none"

\* C15: create_model_table with the name of a table that exists fails: its
\* CREATE TABLE is rejected (as a duplicate table, ProgrammingError, when
\* nothing else is in its way), the error reaches the caller, no comment is
\* set, and the table, its columns and its rows are what they were.
C15_ExistingTableIsRejected ==
    TableRecreated =>
        /\ Len(last.trace) = 1
        /\ last.trace[1].stmt[1] = "CREATE TABLE"
        /\ last.exc = last.trace[1].err
        /\ last.exc # "none"
        /\ Engine(last.before, last.trace[1].stmt).err = "ProgrammingError"
        /\ db = last.before
        /\ txn = "aborted"

\* C15 witness: table a, with rows and a column x added by an earlier call,
\* was created again with a comment and as BIGSERIAL: duplicate table, and a
\* is as it was
C15_Witness ==
    /\ TableRecreated
    /\ last.args.t = "a" /\ last.args.bigint /\ last.args.comment # ""
    /\ last.before.nrows["a"] > 0
    /\ last.before.col[<<"a", "x">>].type # "none"
    /\ last.exc = "ProgrammingError"
    /\ db.col[<<"a", "id">>].type = "int4"
    /\ db.col = last.before.col /\ db.nrows = last.before.nrows
    /\ db.relcomment = last.before.relcomment

\* ---- pg_varchar, reverse_order ----
\* pg_varchar was called without a size, or with one that is empty: 0,
\* False, 0.0, '' or None
NoSize ==
    \/ ~last.args.given
    \/ last.args.size.type = "int" /\ last.args.size.v = 0
    \/ last.args.size.type = "bool" /\ ~last.args.size.v
    \/ last.args.size.type = "float" /\ last.args.size.tenths = 0
    \/ last.args.size.type = "str" /\ last.args.size.v = ""
    \/ last.args.size.type = "NoneType"

\* The size is an int, bool included (True is 1, False is 0)
IntegerSize == last.args.size.type \in {"int", "bool"}

\* 'VARCHAR(%d)' % n
Sized == <<"VARCHAR(1)", "VARCHAR(2)", "VARCHAR(3)", "VARCHAR(4)", "VARCHAR(5)">>

\* C16 as stated: pg_varchar returns 'VARCHAR' without a size and for an
\* integer that is 0 or negative, 'VARCHAR(n)' for every positive integer n,
\* and raises for every size that is not an integer, whatever its truth
\* value ('', None and 0.0 included).
C16_NonIntegerAlwaysRejected ==
    last.op = "pg_varchar" =>
        /\ (~last.args.given \/ (IntegerSize /\ IntOf(last.args.size) <= 0)) =>
              last.exc = "none" /\ last.ret = "VARCHAR"
        /\ (last.args.given /\ IntegerSize /\ IntOf(last.args.size) > 0) =>
              last.exc = "none" /\ last.ret = Sized[IntOf(last.args.size)]
        /\ (last.args.given /\ ~IntegerSize) => last.exc = "ValueError"

\* C16 amended: pg_varchar returns 'VARCHAR' without a size, for every size
\* that is empty (0, False, 0.0, '', None), whatever its type, and for a
\* negative integer; 'VARCHAR(n)' for every positive integer n (True is 1);
\* and raises ValueError for every size that is neither empty nor an
\* integer.
C16_NonEmptyNonIntegerRejected ==
    last.op = "pg_varchar" =>
        /\ (NoSize \/ (IntegerSize /\ IntOf(last.args.size) < 0)) =>
              last.exc = "none" /\ last.ret = "VARCHAR"
        /\ (IntegerSize /\ IntOf(last.args.size) > 0) =>
              last.exc = "none" /\ last.ret = Sized[IntOf(last.args.size)]
        /\ (~NoSize /\ ~IntegerSize) => last.exc = "ValueError"

\* C16 witness: pg_varchar('') returned 'VARCHAR'
C16_Witness ==
    /\ last.op = "pg_varchar"
    /\ last.args.given
    /\ last.args.size = [type |-> "str", v |-> ""]
    /\ last.exc = "none"
    /\ last.ret = "VARCHAR"

\* The items of the call in their order, in lower case, each with the
\* opposite of its direction, and no direction is asc
ReversedClause ==
    join([i \in 1..Len(last.args.items) |->
            last.args.items[i].column \o <<" ">>
            \o (IF last.args.items[i].direction = asc THEN desc ELSE asc)],
         <<",", " ">>)

\* The same with the direction of each item itself
NormalizedClause ==
    join([i \in 1..Len(last.args.items) |->
            last.args.items[i].column \o <<" ">> \o last.args.items[i].direction],
         <<",", " ">>)

\* C17: on a clause of comma-separated items, each a column name that asc or
\* desc may follow in any case, reverse_order returns the items in the same
\* sequence, in lower case, joined by ', ', each with its direction flipped
\* (asc or none to desc, desc to asc); reverse_order of that result is the
\* clause in lower case with every direction explicit; and 'a asc, b desc'
\* gives 'a desc, b asc'.
C17_DirectionsFlipped ==
    /\ last.op = "reverse_order" =>
          /\ last.exc = "none"
          /\ last.ret = ReversedClause
          /\ reverse_order(last.ret) = [ret |-> NormalizedClause, exc |-> "none"]
    /\ reverse_order(<<"a", " ", "a", "s", "c", ",", " ", "b", " ", "d", "e", "s", "c">>).ret
          = <<"a", " ", "d", "e", "s", "c", ",", " ", "b", " ", "a", "s", "c">>

\* C17 witness: reverse_order of 'B ASC, Ab  Desc ' returned 'b desc, ab asc'
C17_Witness ==
    /\ last.op = "reverse_order"
    /\ last.args.order = <<"B", " ", "A", "S", "C", ",", " ", "A", "b",
                           " ", " ", "D", "e", "s", "c", " ">>
    /\ last.exc = "none"
    /\ last.ret = <<"b", " ", "d", "e", "s", "c", ",", " ", "a", "b", " ", "a", "s", "c">>

\* ---- convert_column_int4_to_int8: views on views, order, termination ----
\* View v read the column of the call and view w read v
ViewChain ==
    /\ last.op = "convert_column_int4_to_int8"
    /\ last.before.col[<<last.args.t, last.args.c>>].type = "int4"
    /\ last.before.rel["v"] = "v"
    /\ <<last.args.t, last.args.c>> \in last.before.view["v"]
    /\ last.before.rel["w"] = "v"
    /\ \E p \in last.before.view["w"] : p[1] = "v"

\* C18: with view w on view v on the column of the call, the call captures
\* both and completes (unless the engine rejects a statement for a reason of
\* its own, an OperationalError), and v and w are there afterwards with the
\* definitions they had.
C18_ViewChainWidened ==
    ViewChain =>
        /\ last.exc \in {"none", "OperationalError"}
        /\ last.exc = "none" =>
              /\ db.col[<<last.args.t, last.args.c>>].type = "int8"
              /\ db.rel["v"] = "v" /\ db.view["v"] = last.before.view["v"]
              /\ db.rel["w"] = "v" /\ db.view["w"] = last.before.view["w"]

\* The positions in the call of the ALTER COLUMN TYPE statements, and of
\* those on the column of the call itself
AlterAt == {i \in 1..Len(last.trace) : last.trace[i].stmt[1] = "ALTER COLUMN TYPE"}

OwnAlterAt ==
    {i \in AlterAt : last.trace[i].stmt[2] = last.args.t /\ last.trace[i].stmt[3] = last.args.c}

\* The views that read the column of the call when it was made
CapturedViews == ViewsOn(last.before, last.args.t, last.args.c)

\* C19: the statements of one call of convert_column_int4_to_int8 come in
\* this order.  What precedes the ALTER of the column of the call is the
\* drop of views that read the column when the call was made, and by then
\* each of these has been dropped; the ALTER of any other column (in a
\* recursive call) is on a column that had a foreign key to the column of
\* the call when it was made, and comes after it; and a view captured
\* by the call is recreated, with the definition it had when the call was
\* made, after every ALTER of the call, recursive ones included.
C19_StatementsInOrder ==
    last.op = "convert_column_int4_to_int8" =>
        /\ \A i \in 1..Len(last.trace) :
              (\A k \in OwnAlterAt : i < k) =>
                  /\ last.trace[i].stmt[1] = "DROP VIEW"
                  /\ last.trace[i].stmt[2] \in CapturedViews
        /\ \A k \in OwnAlterAt : \A v \in CapturedViews :
              \E i \in 1..(k - 1) :
                  last.trace[i] = [stmt |-> <<"DROP VIEW", v>>, err |-> "none"]
        /\ \A j \in AlterAt \ OwnAlterAt :
              /\ <<last.trace[j].stmt[2], last.trace[j].stmt[3]>> \in Referencing
              /\ \E k \in OwnAlterAt : k < j /\ last.trace[k].err = "none"
        /\ \A i \in 1..Len(last.trace) :
              (last.trace[i].stmt[1] = "CREATE VIEW" /\ last.trace[i].stmt[2] \in CapturedViews) =>
                  /\ last.trace[i].stmt[3] = last.before.view[last.trace[i].stmt[2]]
                  /\ OwnAlterAt # {}
                  /\ \A k \in AlterAt : k < i /\ last.trace[k].err = "none"

\* C19 witness: the widening of a.id dropped view v, which read it, altered
\* a.id, then, in the recursive call for b.a_id, dropped view w, altered
\* b.a_id and recreated w, and recreated v last
C19_Witness ==
    /\ last.op = "convert_column_int4_to_int8"
    /\ last.args.t = "a" /\ last.args.c = "id"
    /\ last.exc = "none"
    /\ CapturedViews = {"v"}
    /\ last.trace[1].stmt = <<"DROP VIEW", "v">>
    /\ last.trace[2].stmt = <<"ALTER COLUMN TYPE", "a", "id", "int8">>
    /\ last.trace[3].stmt = <<"DROP VIEW", "w">>
    /\ last.trace[4].stmt = <<"ALTER COLUMN TYPE", "b", "a_id", "int8">>
    /\ last.trace[5].stmt[1] = "CREATE VIEW" /\ last.trace[5].stmt[2] = "w"
    /\ last.trace[Len(last.trace)].stmt = <<"CREATE VIEW", "v", last.before.view["v"]>>

\* The columns of last.before with a foreign key to a column of S
ReferencingAny(S) ==
    {<<k.tbl, k.col>> : k \in {k \in last.before.con :
        k.kind = "f" /\ <<k.reftbl, k.refcol>> \in S}}

\* The columns that reach a column of S through foreign keys, S included
RECURSIVE ReachableFrom(_)
ReachableFrom(S) ==
    IF ReferencingAny(S) \subseteq S THEN S ELSE ReachableFrom(S \cup ReferencingAny(S))

\* No column reaches itself through foreign keys
AcyclicBefore == \A p \in GraphCols : p \notin ReachableFrom(ReferencingAny({p}))

\* C20: when no column reaches itself through foreign keys (two columns of
\* one table, a_id referencing id, are no cycle), the recursion of
\* convert_column_int4_to_int8 ends: the call never runs out of stack, it
\* raises only when the engine rejects a statement, and when it completes
\* every column that reaches its column through foreign keys is int8.
C20_AcyclicWideningTerminates ==
    (last.op = "convert_column_int4_to_int8" /\ AcyclicBefore) =>
        /\ last.exc # "RecursionError"
        /\ FailedAt = {} => last.exc = "none"
        /\ last.exc = "none" =>
              \A p \in ReachableFrom({<<last.args.t, last.args.c>>}) : db.col[p].type = "int8"

\* C20 witness: b.id referenced a.a_id, which referenced a.id in its own
\* table, all int4; the widening of a.id went two calls deep and made the
\* three columns int8
C20_Witness ==
    /\ last.op = "convert_column_int4_to_int8"
    /\ AcyclicBefore
    /\ last.args.t = "a" /\ last.args.c = "id"
    /\ {<<"a", "a_id">>, <<"b", "id">>} \subseteq ReachableFrom({<<"a", "id">>})
    /\ <<"b", "id">> \notin ReferencingAny({<<"a", "id">>})
    /\ \A p \in GraphCols : last.before.col[p].type = "int4"
    /\ last.exc = "none"
    /\ \A p \in {<<"a", "id">>, <<"a", "a_id">>, <<"b", "id">>} : db.col[p].type = "int8"

\* ---- convert_column: the fallback script ----
\* convert_column sent its script after the ALTER COLUMN TYPE in the
\* savepoint
FallbackTaken == last.op = "convert_column" /\ FallbackExecuted

\* C21: when convert_column takes the rename/add/copy/drop fallback and the
\* script goes through, the table has a column of the original name and the
\* target type whose value in every row is the cast of the value the row
\* had, no column __temp_type_cast is left, and the other columns of the
\* table and its rows are what they were; when the script fails, its error
\* reaches the caller and nothing else is tried.
C21_FallbackCastsInPlace ==
    FallbackTaken =>
        /\ last.trace[2].err = "none" =>
              /\ last.exc = "none"
              /\ HasTargetType
              /\ db.col[<<last.args.t, last.args.c>>].vals
                    = [i \in 1..last.before.nrows[last.args.t] |->
                          Cast(last.before.col[<<last.args.t, last.args.c>>].vals[i],
                               UdtName(last.args.columntype))]
              /\ "error" \notin Range(db.col[<<last.args.t, last.args.c>>].vals)
              /\ db.col[<<last.args.t, TempTypeCast>>] = NoColumn
              /\ \A c \in Cols \ {last.args.c, TempTypeCast} :
                    db.col[<<last.args.t, c>>] = last.before.col[<<last.args.t, c>>]
              /\ db.nrows = last.before.nrows
        /\ last.trace[2].err # "none" =>
              /\ last.exc = last.trace[2].err
              /\ Len(last.trace) = 2
              /\ last.warn = <<>>
              /\ db = last.before
              /\ txn = "aborted"

\* C21 witness: column x of a, an int4 holding 1 in a row and read by a
\* view, went to VARCHAR(10) through the script: the row holds '1', id is
\* what it was
C21_Witness ==
    /\ FallbackTaken
    /\ last.args.columntype = "VARCHAR(10)"
    /\ last.before.col[<<"a", "x">>].type = "int4"
    /\ last.before.nrows["a"] = 1
    /\ last.before.col[<<"a", "x">>].vals = <<"i:1">>
    /\ last.before.rel["v"] = "v"
    /\ last.exc = "none"
    /\ db.col[<<"a", "x">>].type = "varchar"
    /\ db.col[<<"a", "x">>].vals = <<"s:1">>
    /\ db.col[<<"a", "id">>] = last.before.col[<<"a", "id">>]

\* ---- the merge of requisition lines ----
\* The requisitions of S had one warehouse and one company when the call
\* was made
Agree(S) ==
    \A r1, r2 \in S :
        /\ last.before.req[r1].warehouse_id = last.before.req[r2].warehouse_id
        /\ last.before.req[r1].company_id = last.before.req[r2].company_id

\* The requisitions of the lines selected
SelectedRequisitions ==
    {last.before.line[l].requisition_id : l \in Range(last.args.line_ids)}

\* C22: merge_requisition_lines on lines whose requisitions differ in
\* warehouse or company raises, with no requisition created and no line
\* moved; and check_requisitions returns True only for requisitions of one
\* warehouse and one company.
C22_MismatchedMergeRejected ==
    /\ (last.op = "merge_requisition_lines" /\ ~Agree(SelectedRequisitions)) =>
          /\ last.exc # "none"
          /\ db.req = last.before.req
          /\ db.line = last.before.line
    /\ (last.op = "check_requisitions" /\ last.exc = "none" /\ last.ret = "True") =>
          Agree(Range(last.args.requisitions))

\* ---- fix_foreign_key, called twice ----
\* The call is the second of two calls of fix_foreign_key with the same
\* arguments, one of the five delete actions among them, made right after
\* the first returned
FixedAgain == last.op = "fix_foreign_key again" /\ ValidOnDelete(last.args.ondelete)

\* The constraints whose DROP CONSTRAINT the engine rejected during the
\* first call
FirstDropsRejected ==
    {last.first.trace[i].stmt[3] : i \in {i \in DOMAIN last.first.trace :
        last.first.trace[i].stmt[1] = "DROP CONSTRAINT" /\ last.first.trace[i].err # "none"}}

\* C23 as stated: once fix_foreign_key has returned, the same call again
\* drops nothing, creates nothing, leaves the foreign keys as they are and
\* does not return True, whatever the foreign keys the first call started
\* from.
C23_SecondCallDoesNothing ==
    FixedAgain =>
        /\ last.exc = "none"
        /\ last.trace = <<>>
        /\ db.con = last.before.con
        /\ last.ret # "True"

\* C23 amended: once fix_foreign_key has returned with none of its DROP
\* CONSTRAINT rejected, the same call again sends no statement, leaves the
\* foreign keys as they are and returns None.  After a first call with
\* rejected drops (which drop_constraint swallows), the second call creates
\* nothing and returns None as well, but sends DROP CONSTRAINT again, for
\* every foreign key the first call left behind but the one it finds first
\* to be the one asked for.
C23_SecondCallOnlyRetriesRejectedDrops ==
    FixedAgain =>
        /\ last.exc = "none"
        /\ last.ret = "None"
        /\ ~Created
        /\ \A i \in DOMAIN last.trace :
              /\ last.trace[i].stmt[1] = "DROP CONSTRAINT"
              /\ \E k \in FksBefore : k.name = last.trace[i].stmt[3]
        /\ Len(last.trace) = Cardinality(FksBefore) - 1
        /\ FirstDropsRejected = {} => (last.trace = <<>> /\ db = last.before)
        /\ FksAfter \subseteq FksBefore
        /\ \E k \in FksAfter : Desired(k)

\* C23 witness: the first call, for "cascade" in lower case, pruned two
\* foreign keys and created the one asked for; the second sent no statement
\* and returned None
C23_Witness ==
    /\ FixedAgain
    /\ last.args.ondelete = "cascade"
    /\ last.first.ret = "True"
    /\ Cardinality({k \in last.first.before.con : k.kind = "f"}) = 2
    /\ FirstDropsRejected = {}
    /\ last.trace = <<>>
    /\ last.ret = "None"
    /\ db = last.before
    /\ Cardinality(FksAfter) = 1

====
